---- MODULE Spec2Model ----
(***************************************************************************)
(* Model of the parallel block executor of crates/revm/revm-parallel       *)
(* (src/executor.rs): ParallelExecutor::execute_batch, execute_inner,      *)
(* apply_post_execution_state_change, save_receipts and the                *)
(* AsyncBlockExecutor / PrunableAsyncBlockExecutor implementations.        *)
(*                                                                         *)
(* Option<T> is a sequence of length at most one: <<>> is None and <<x>>   *)
(* is Some(x).  Transaction indices are 0-based as in the source, so       *)
(* transaction i of a body is body[i + 1].                                 *)
(***************************************************************************)
EXTENDS Integers, Sequences, FiniteSets, TLC

\* ------------------------------------------------------------------ bounds
\* longest block body of the single-block specification
MaxTxs == 2
\* longest block body of the multi-block specification
MaxChainTxs == 1
\* number of execute calls of the multi-block specification
MaxCalls == 2
\* largest block number a caller passes
MaxBlockNum == 2

\* ------------------------------------------------------- accounts and EVM
\* Accounts of the database; "c" is the beacon-roots contract, "m" the
\* block beneficiary (miner), "d" and "e" the DAO accounts and "r" the DAO
\* beneficiary.
TxAccounts == {"a", "b", "c"}
Accounts == TxAccounts \cup {"m", "d", "e", "r"}

\* Account values wrap at this width.
ValMod == 3

AddVal(x, y) == (x + y) % ValMod

\* The transactions a body is drawn from.  A transaction reads account r and
\* writes account w; the EVM rejects it when the value it reads is failAt
\* (-1: it is never rejected).
TxPool ==
    { [hash |-> "t1", tx_type |-> "Legacy", r |-> "a", w |-> "a", failAt |-> -1],
      [hash |-> "t2", tx_type |-> "Eip2930", r |-> "b", w |-> "b", failAt |-> -1],
      [hash |-> "t3", tx_type |-> "Eip1559", r |-> "c", w |-> "b", failAt |-> 0],
      [hash |-> "t4", tx_type |-> "Eip4844", r |-> "b", w |-> "a", failAt |-> 0] }

\* evm.transact_ref() of transaction t against the database db: an EVMResult,
\* Err (ok = FALSE) or Ok(ResultAndState) with the gas used and the state
\* diff (account w gets the absolute value val).  The field `of` remembers
\* which transaction produced the diff.
Transact(db, t) ==
    IF db[t.r] = t.failAt
    THEN [ok |-> FALSE, gas_used |-> 0, w |-> t.w, val |-> 0, of |-> t.hash]
    ELSE [ok |-> TRUE,
          gas_used |-> IF db[t.r] = 0 THEN 1 ELSE 2,
          w |-> t.w,
          val |-> AddVal(db[t.r], 1),
          of |-> t.hash]

\* ---------------------------------------------------------------- helpers
Some(x) == <<x>>
NoneOpt == <<>>
IsSome(o) == Len(o) = 1
IsNone(o) == Len(o) = 0
Unwrap(o) == o[1]

RECURSIVE SumGas(_)
SumGas(rs) == IF rs = <<>> THEN 0 ELSE Head(rs).gas_used + SumGas(Tail(rs))

\* Insert entry e into the sequence s, sorted ascending by idx, after every
\* entry with the same idx.
RECURSIVE InsertByIdx(_, _)
InsertByIdx(e, s) ==
    IF s = <<>> THEN <<e>>
    ELSE IF e.idx < Head(s).idx THEN <<e>> \o s
    ELSE <<Head(s)>> \o InsertByIdx(e, Tail(s))

RECURSIVE SortByIdx(_)
SortByIdx(s) ==
    IF s = <<>> THEN <<>>
    ELSE InsertByIdx(s[Len(s)], SortByIdx(SubSeq(s, 1, Len(s) - 1)))

\* Sequences without repetition over the set S.
RECURSIVE InjSeqs(_)
InjSeqs(S) ==
    {<<>>} \cup UNION { { <<x>> \o t : t \in InjSeqs(S \ {x}) } : x \in S }

\* The ways of cutting the sequence s into consecutive non-empty pieces.
RECURSIVE Splits(_)
Splits(s) ==
    IF s = <<>> THEN { <<>> }
    ELSE UNION { { <<SubSeq(s, 1, i)>> \o rest :
                     rest \in Splits(SubSeq(s, i + 1, Len(s))) } :
                 i \in 1..Len(s) }

\* ---------------------------------------------------------------- inputs
\* Block bodies: distinct transactions of the pool, at most n of them.
Bodies(pool, n) == { b \in InjSeqs(pool) : Len(b) <= n }

\* The transactions of the multi-block specification: t1 and t4.
ChainPool == { t \in TxPool : t.hash \in {"t1", "t4"} }

\* The block queues a store can hold for a body of n transactions: ordered
\* lists of non-empty batches, each an ordered list of indices into the body,
\* no index listed twice.
Queues(n) == UNION { Splits(s) : s \in InjSeqs(0..(n - 1)) }

\* Chain specifications: the block number each fork activates at.
ChainSpecs ==
    { [dao |-> 2, byzantium |-> 2, spurious_dragon |-> 2, cancun |-> 2],
      [dao |-> 1, byzantium |-> 1, spurious_dragon |-> 1, cancun |-> 1] }

BlockNumbers == 1..MaxBlockNum

\* header.gas_used values offered for a body of n transactions (a transaction
\* uses 1 or 2 gas, so the true sum lies in n..2n).
GasValues(n) == n..(2 * n + 1)

\* parent_beacon_block_root values
BeaconRoots == { NoneOpt, Some(1) }

\* The blocks a caller passes, with bodies of at most n transactions of pool.
Blocks(pool, n) ==
    UNION { { [number |-> num, parent_beacon_block_root |-> root,
               body |-> body, gas_used |-> g] :
                 num \in BlockNumbers, root \in BeaconRoots,
                 g \in GasValues(Len(body)) } :
            body \in Bodies(pool, n) }

\* The blocks of the single-block and of the multi-block specification.
SingleBlocks == Blocks(TxPool, MaxTxs)
ChainBlocks == Blocks(ChainPool, MaxChainTxs)

\* What BlockQueueStore::get_queue can return for a body of n transactions.
QueuesByLen ==
    [n \in 0..MaxTxs |->
        IF n = 0 THEN { NoneOpt }
        ELSE { NoneOpt } \cup { Some(q) : q \in Queues(n) }]


\* ------------------------------------------------------------------ state
VARIABLES
    chain_spec,        \* ExecutionData::chain_spec
    budget,            \* [calls, blocks]: what the caller of this run submits
    calls,             \* number of execute calls made so far
    state,             \* SharedState: the account values readers see
    transition_state,  \* SharedState: number of pending (unmerged) transitions
    bundle_state,      \* SharedState: number of transitions merged in the bundle
    state_clear_flag,  \* SharedState: state clear flag
    first_block,       \* ExecutionData::first_block (Option)
    receipts,          \* ExecutionData::receipts, one list per block
    tip,               \* ExecutionData::tip (Option)
    prune_modes,       \* ExecutionData::prune_modes
    pc,                \* where the call in progress stands
    entry,             \* "execute" or "execute_and_verify_receipt"
    block,             \* the block of the call in progress (or of the last call)
    stored,            \* what the store returned for the block (Option)
    block_queue,       \* the queue execute_inner iterates over
    batch,             \* the batch being executed
    pos,               \* position in batch of the next index to spawn
    job,               \* the job in the worker pool (Option)
    fut_batch,         \* FuturesOrdered of the batch, in push order
    batch_results,     \* `results` of execute_batch
    states,            \* `states` of execute_batch
    results,           \* `results` of execute_inner
    ret,               \* what the last call returned (Option)
    output,            \* what the last take_output_state returned (Option)
    \* history variables
    pre_state,         \* state when the call was entered
    batch_start,       \* state when the current batch was started
    batch_no,          \* number of the current batch within the queue, from 1
    commits,           \* batches committed during the call
    last_commit,       \* diffs applied by the last batch commit, in order
    started,           \* indices whose job was submitted during the call
    merged,            \* merge_transitions was performed during the call
    inner_receipts,    \* the receipts execute_inner returned (Option)
    header_root,       \* header.receipts_root of the block it returned them for (Option)
    beacon_diff,       \* the pre-block call of the call produced a diff
    ok_blocks,         \* numbers of the blocks whose call returned Ok, in order
    err_seen,          \* some call returned an error
    taken              \* take_output_state has been called

exec_vars == <<state, transition_state, bundle_state, state_clear_flag>>
data_vars == <<first_block, receipts, tip, prune_modes>>
call_vars == <<pc, entry, block, stored, block_queue, batch, pos, job, fut_batch,
               batch_results, states, results, ret, output>>
hist_vars == <<pre_state, batch_start, batch_no, commits, last_commit, started,
               merged, inner_receipts,
               header_root, beacon_diff, ok_blocks, err_seen, taken>>
executor_vars ==
    <<chain_spec, budget, calls, exec_vars, data_vars, call_vars, hist_vars>>

\* The discovery coordinator (network/src/discovery/discv5_downgrade_v4.rs).
VARIABLES
    kbuckets,               \* records in the routing table of discv5
    discv4_table,           \* peer ids in the mirror table of discv4
    discv5_updates,         \* events discv5 has emitted, not yet polled
    discv4_updates,         \* updates discv4 has emitted, not yet polled
    discv5_kbuckets_change, \* the watch channel holds an unseen notification
    disc_update,            \* what disc_updates.poll_next_unpin returned (Option)
    yielded,                \* the updates Discovery::poll_next has matched on
    \* history variables
    v5_emitted,             \* every event discv5 has emitted, in order
    v4_emitted,             \* every update discv4 has emitted, in order
    ticks_sent,             \* notifications sent on the watch channel
    add_node_ret            \* the last call of add_node and its result (Option)

discovery_vars ==
    <<kbuckets, discv4_table, discv5_updates, discv4_updates,
      discv5_kbuckets_change, disc_update, yielded, v5_emitted, v4_emitted,
      ticks_sent, add_node_ret>>

\* The discv5 wrapper (net/discv5/src/lib.rs): DiscV5::start and the handle.
VARIABLES
    config,         \* DiscV5Config: listen_config, bootstrap_nodes
    start_pc,       \* position of DiscV5::start
    start_ret,      \* what start returned (Option)
    local_enr,      \* the local record (Option)
    discv5,         \* the discv5::Discv5 instance: "none", "created", "started"
    discv5_events,  \* event_stream() was subscribed
    boot_idx,       \* bootstrap nodes the loop has gone through
    boot_enrs,      \* the boot records add_enr took
    enr_requests,   \* the spawned request_enr tasks and their progress
    self_lookup,    \* the self-lookup task: "none", "lookup", "sleep"
    reachable,      \* the last call of try_into_reachable (Option)
    updated,        \* the last call of update_local_enr (Option)
    \* history variables
    steps,          \* the steps start has gone through, in order
    lookups,        \* find_node_predicate queries issued
    lookup_results  \* the outcomes of the finished queries, as traced

start_vars ==
    <<config, start_pc, start_ret, local_enr, discv5, discv5_events, boot_idx,
      boot_enrs, enr_requests, self_lookup, reachable, updated, steps, lookups,
      lookup_results>>

\* The configuration builder (net/discv5/src/config.rs): the boot-node
\* parsers.
VARIABLES
    bootstrap_nodes,    \* DiscV5ConfigBuilder::bootstrap_nodes (HashSet<BootNode>)
    boot_input,         \* the string handed to the parser
    boot_called         \* the parser that was called on it, "" for none yet

builder_vars == <<bootstrap_nodes, boot_input, boot_called>>

\* Discovery::start_discv5_with_v4_downgrade
\* (network/src/discovery/discv5_downgrade_v4.rs)
VARIABLES
    downgrade_args,     \* discv4_addr and the three optional configurations
    downgrade_ret       \* what the call returned (Option)

downgrade_vars == <<downgrade_args, downgrade_ret>>

\* Discovery as a Stream (poll_next) and the task that polls it.
VARIABLES
    queued_events,      \* Discovery::queued_events (VecDeque)
    ready_updates,      \* updates the v4/v5 and DNS streams hold ready
    waker_registered,   \* the update streams hold the task's waker
    woken,              \* the task is scheduled to poll the stream
    stream_yielded,     \* the events poll_next has returned in Ready(Some(..))
    arrived             \* the number of updates that have arrived

poll_vars ==
    <<queued_events, ready_updates, waker_registered, woken, stream_yielded,
      arrived>>

network_vars == <<builder_vars, downgrade_vars, poll_vars>>

vars == <<executor_vars, discovery_vars, start_vars, network_vars>>

InitialDb == [a \in Accounts |-> IF a \in {"d", "e"} THEN 1 ELSE 0]

NoBlock == [number |-> 0, parent_beacon_block_root |-> NoneOpt, body |-> <<>>,
            gas_used |-> 0]

\* ParallelExecutor::new, before any call.
InitExecutor ==
    /\ chain_spec \in ChainSpecs
    /\ calls = 0
    /\ state = InitialDb
    /\ transition_state = 0
    /\ bundle_state = 0
    /\ state_clear_flag = FALSE
    /\ first_block = NoneOpt
    /\ receipts = <<>>
    /\ tip = NoneOpt
    /\ prune_modes = "none"
    /\ pc = "idle"
    /\ entry = "execute"
    /\ block = NoBlock
    /\ stored = NoneOpt
    /\ block_queue = <<>>
    /\ batch = <<>>
    /\ pos = 1
    /\ job = NoneOpt
    /\ fut_batch = <<>>
    /\ batch_results = <<>>
    /\ states = <<>>
    /\ results = <<>>
    /\ ret = NoneOpt
    /\ output = NoneOpt
    /\ pre_state = InitialDb
    /\ batch_start = InitialDb
    /\ batch_no = 0
    /\ commits = 0
    /\ last_commit = <<>>
    /\ started = {}
    /\ merged = FALSE
    /\ inner_receipts = NoneOpt
    /\ header_root = NoneOpt
    /\ beacon_diff = FALSE
    /\ ok_blocks = <<>>
    /\ err_seen = FALSE
    /\ taken = FALSE

\* Discovery::start_discv5_with_v4_downgrade has returned Ok with both
\* protocols enabled; nothing is discovered yet.
InitDiscovery ==
    /\ kbuckets = {}
    /\ discv4_table = {}
    /\ discv5_updates = <<>>
    /\ discv4_updates = <<>>
    /\ discv5_kbuckets_change = FALSE
    /\ disc_update = NoneOpt
    /\ yielded = <<>>
    /\ v5_emitted = <<>>
    /\ v4_emitted = <<>>
    /\ ticks_sent = 0
    /\ add_node_ret = NoneOpt

\* DiscV5::start has been called with the configuration cfg and has not
\* taken a step.
InitDiscV5(cfg) ==
    /\ config = cfg
    /\ start_pc = "build_enr"
    /\ start_ret = NoneOpt
    /\ local_enr = NoneOpt
    /\ discv5 = "none"
    /\ discv5_events = FALSE
    /\ boot_idx = 0
    /\ boot_enrs = {}
    /\ enr_requests = <<>>
    /\ self_lookup = "none"
    /\ reachable = NoneOpt
    /\ updated = NoneOpt
    /\ steps = <<>>
    /\ lookups = 0
    /\ lookup_results = <<>>

\* A builder nothing was added to, and no parser called.
InitBuilder ==
    /\ bootstrap_nodes = {}
    /\ boot_input = <<>>
    /\ boot_called = ""

\* start_discv5_with_v4_downgrade with the default configurations of both
\* protocols and no DNS discovery, not yet called.
InitDowngrade ==
    /\ downgrade_args =
          [discv4_addr |-> [ip |-> "127.0.0.1", port |-> 30303],
           discv4_config |-> TRUE,
           discv5_config |-> Some([mode |-> "Ipv4", ipv4 |-> "127.0.0.1",
                                   ipv4_port |-> 9000, ipv6 |-> "::1",
                                   ipv6_port |-> 9000]),
           dns_discovery_config |-> NoneOpt]
    /\ downgrade_ret = NoneOpt

\* Discovery as start_discv5_with_v4_downgrade returns it (queued_events:
\* Default::default()), handed to a task that is about to poll it.
InitPoll ==
    /\ queued_events = <<>>
    /\ ready_updates = <<>>
    /\ waker_registered = FALSE
    /\ woken = TRUE
    /\ stream_yielded = <<>>
    /\ arrived = 0

InitNetwork == InitBuilder /\ InitDowngrade /\ InitPoll

\* DiscV5Config::builder().build(): discv5's default listen configuration and
\* no bootstrap nodes.
DefaultConfig ==
    [listen_config |-> [mode |-> "Ipv4", ipv4 |-> "l4", ipv4_port |-> 9004,
                        ipv6 |-> "l6", ipv6_port |-> 9006],
     tcp_port |-> 30303, bootstrap_nodes |-> <<>>]

\* One block with a body of up to MaxTxs transactions.
Init ==
    /\ InitDiscV5(DefaultConfig)
    /\ InitDiscovery
    /\ InitNetwork
    /\ InitExecutor
    /\ budget = [calls |-> 1, blocks |-> "single"]

\* Up to MaxCalls blocks with bodies of up to MaxChainTxs transactions.
InitChain ==
    /\ InitDiscV5(DefaultConfig)
    /\ InitDiscovery
    /\ InitNetwork
    /\ InitExecutor
    /\ budget = [calls |-> MaxCalls, blocks |-> "chain"]

\* ------------------------------------------------------------ chain spec
\* ChainSpec::fork(f).active_at_block(n) and transitions_at_block(n)
ActiveAtBlock(fork_block, n) == fork_block <= n
TransitionsAtBlock(fork_block, n) == fork_block = n

\* ------------------------------------------------------------ SharedState
\* One state diff applied to the account values.
ApplyDiff(s, d) == [s EXCEPT ![d.w] = d.val]

RECURSIVE ApplyAll(_, _)
ApplyAll(s, ds) == IF ds = <<>> THEN s ELSE ApplyAll(ApplyDiff(s, Head(ds)), Tail(ds))

\* The order in which SharedState::commit applies the diffs it is given.
CommitOrder(sts) == SortByIdx(sts)

\* SharedState::commit: the account values after the diffs are applied.
CommitNothing(s, sts) == s

Commit(s, sts) == ApplyAll(s, CommitOrder(sts))

\* The DAO accounts and the DAO beneficiary.
DaoHardforkAccounts == {"d", "e"}
DaoHardforkBeneficiary == "r"

\* SharedState::drain_balances: the accounts are emptied.
DrainBalances(s, accts) == [a \in Accounts |-> IF a \in accts THEN 0 ELSE s[a]]

RECURSIVE SumBalances(_, _)
SumBalances(s, accts) ==
    IF accts = {} THEN 0
    ELSE LET a == CHOOSE x \in accts : TRUE
         IN s[a] + SumBalances(s, accts \ {a})

\* SharedState::increment_balances
IncrementBalances(s, incr) == [a \in Accounts |-> AddVal(s[a], incr[a])]

\* --------------------------------------------------- state_change helpers
\* execute_beacon_root_contract_call: [err, diff].  Before the fork nothing
\* happens; after it a missing parent root is an error and the system call
\* writes the root into the beacon-roots contract.
ExecuteBeaconRootContractCall(spec, blk) ==
    IF ~ActiveAtBlock(spec.cancun, blk.number)
    THEN [err |-> FALSE, diff |-> NoneOpt]
    ELSE IF IsNone(blk.parent_beacon_block_root)
    THEN [err |-> TRUE, diff |-> NoneOpt]
    ELSE [err |-> FALSE,
          diff |-> Some([idx |-> 0, w |-> "c",
                         val |-> Unwrap(blk.parent_beacon_block_root),
                         of |-> "beacon"])]

\* post_block_balance_increments: the block reward of the beneficiary.
PostBlockBalanceIncrements(spec, blk) ==
    [a \in Accounts |-> IF a = "m" THEN 1 ELSE 0]

\* ExecutionData::prune_receipts: with a tip and full pruning the receipts of
\* the block are dropped, otherwise they are kept.
PruneReceipts(fb, rcpts) ==
    IF IsSome(fb) /\ IsSome(tip) /\ prune_modes = "full"
    THEN <<>> ELSE rcpts

\* verify_receipt: the header's receipts root against the receipts.  A root
\* is the receipt list it commits to; BadRoot commits to no list an execution
\* produces.
BadRoot == << [tx_type |-> "none", success |-> FALSE,
               cumulative_gas_used |-> 0, logs |-> "none"] >>
ReceiptsRoot(rcpts) == rcpts
VerifyReceipt(root, rcpts) == root = ReceiptsRoot(rcpts)

\* ----------------------------------------------------------- return values
RetOk == [kind |-> "Ok", hash |-> "", got |-> 0, expected |-> 0]
RetErr(k) == [kind |-> k, hash |-> "", got |-> 0, expected |-> 0]
RetEvm(h) == [kind |-> "EVM", hash |-> h, got |-> 0, expected |-> 0]
RetGas(g, e) == [kind |-> "BlockGasUsed", hash |-> "", got |-> g, expected |-> e]

\* The locals of execute_batch are dropped when the call returns.
DropLocals ==
    /\ job' = NoneOpt
    /\ fut_batch' = <<>>
    /\ batch_results' = <<>>
    /\ states' = <<>>

\* The call returns the error e to its caller.
ReturnErr(e) ==
    /\ pc' = "idle"
    /\ ret' = Some(e)
    /\ err_seen' = TRUE
    /\ UNCHANGED <<receipts, ok_blocks>>

\* ParallelExecutor::save_receipts, first_block being fb.
SaveReceiptsFlat(fb, rcpts) ==
    receipts' = receipts \o [i \in 1..Len(rcpts) |-> <<rcpts[i]>>]

SaveReceipts(fb, rcpts) == receipts' = Append(receipts, PruneReceipts(fb, rcpts))

\* execute_inner returned Ok(rcpts) to the entry point `kind` (execute or
\* execute_and_verify_receipt), which verifies the receipts (Byzantium, header
\* root `root`) and saves them.
\* fb is first_block as execute_inner left it.
ReturnFromInnerAlwaysVerifies(kind, blk, fb, rcpts, root) ==
    /\ inner_receipts' = Some(rcpts)
    /\ header_root' = Some(root)
    /\ IF /\ kind = "execute_and_verify_receipt"
          /\ ~VerifyReceipt(root, rcpts)
       THEN ReturnErr(RetErr("ReceiptRootMismatch"))
       ELSE /\ SaveReceipts(fb, rcpts)
            /\ pc' = "idle"
            /\ ret' = Some(RetOk)
            /\ ok_blocks' = Append(ok_blocks, blk.number)
            /\ UNCHANGED err_seen

ReturnFromInner(kind, blk, fb, rcpts, root) ==
    /\ inner_receipts' = Some(rcpts)
    /\ header_root' = Some(root)
    /\ IF /\ kind = "execute_and_verify_receipt"
          /\ ActiveAtBlock(chain_spec.byzantium, blk.number)
          /\ ~VerifyReceipt(root, rcpts)
       THEN ReturnErr(RetErr("ReceiptRootMismatch"))
       ELSE /\ SaveReceipts(fb, rcpts)
            /\ pc' = "idle"
            /\ ret' = Some(RetOk)
            /\ ok_blocks' = Append(ok_blocks, blk.number)
            /\ UNCHANGED err_seen

\* ------------------------------------------------------------ execute_batch
\* The database a worker job reads: the shared state (evm.database(state)).
JobDatabaseSeesBatch ==
    ApplyAll(state, [i \in 1..Len(fut_batch) |-> fut_batch[i].result])

JobDatabaseBlockSnapshot == pre_state

JobDatabase == state

\* What TransactionExecutionFut::poll yields for a finished job.
FutOutputZeroIdx(fut) ==
    [tx_idx |-> 0, tx_hash |-> fut.tx_hash, result |-> fut.result]

FutOutput(fut) ==
    [tx_idx |-> fut.tx_idx, tx_hash |-> fut.tx_hash, result |-> fut.result]

\* The error execute_batch returns for the failed future out.
EvmErrorFirstOfBatch(out) == RetEvm(block.body[batch[1] + 1].hash)

EvmError(out) == RetEvm(out.tx_hash)

\* states.push((tx_idx, state))
StatesEntry(tx_idx, r) == [idx |-> tx_idx, w |-> r.w, val |-> r.val, of |-> r.of]

\* results.push((tx_idx, result))
ResultsEntry(tx_idx, r) ==
    [idx |-> tx_idx, gas_used |-> r.gas_used, success |-> TRUE, logs |-> r.of]

\* execute_inner enters execute_batch for batch number no of the queue q;
\* s is the shared state at that moment.
EnterBatch(q, no, s) ==
    /\ batch' = q[no]
    /\ batch_no' = no
    /\ pos' = 1
    /\ fut_batch' = <<>>
    /\ batch_results' = <<>>
    /\ states' = <<>>
    /\ batch_start' = s
    /\ pc' = "spawn"

\* A job for batch[pos] is spawned into the pool's scope.
Spawn ==
    /\ UNCHANGED <<discovery_vars, start_vars, network_vars>>
    /\ pc = "spawn"
    /\ LET tx_idx == batch[pos]
       IN /\ job' = Some([tx_idx |-> tx_idx,
                          tx_hash |-> block.body[tx_idx + 1].hash])
          /\ started' = started \cup {tx_idx}
    /\ pc' = "job"
    /\ UNCHANGED <<chain_spec, budget, calls, exec_vars, data_vars, entry, block,
                   stored, block_queue, batch, pos, fut_batch, batch_results,
                   states, results, ret, output, pre_state, batch_start,
                   batch_no, commits, last_commit, merged, inner_receipts,
                   header_root,
                   beacon_diff, ok_blocks, err_seen, taken>>

\* The job runs the EVM and sends its result; the scope returns (it waits for
\* the job) and the future of the job is pushed.
JobFinish ==
    /\ UNCHANGED <<discovery_vars, start_vars, network_vars>>
    /\ pc = "job"
    /\ LET j == Unwrap(job)
           result == Transact(JobDatabase, block.body[j.tx_idx + 1])
       IN fut_batch' = Append(fut_batch, [tx_idx |-> j.tx_idx,
                                          tx_hash |-> j.tx_hash,
                                          result |-> result])
    /\ job' = NoneOpt
    /\ pos' = pos + 1
    /\ pc' = IF pos = Len(batch) THEN "collect" ELSE "spawn"
    /\ UNCHANGED <<chain_spec, budget, calls, exec_vars, data_vars, entry, block,
                   stored, block_queue, batch, batch_results, states, results,
                   ret, output, hist_vars>>

\* One iteration of `while let Some(..) = fut_batch.next().await`: the next
\* future in push order; an EVM error ends the call.
Collect ==
    /\ UNCHANGED <<discovery_vars, start_vars, network_vars>>
    /\ pc = "collect"
    /\ fut_batch # <<>>
    /\ LET out == FutOutput(Head(fut_batch))
       IN IF ~out.result.ok
          THEN /\ ReturnErr(EvmError(out))
               /\ DropLocals
          ELSE /\ batch_results' = Append(batch_results,
                                          ResultsEntry(out.tx_idx, out.result))
               /\ states' = Append(states, StatesEntry(out.tx_idx, out.result))
               /\ fut_batch' = Tail(fut_batch)
               /\ UNCHANGED <<pc, ret, err_seen, receipts, ok_blocks, job>>
    /\ UNCHANGED <<chain_spec, budget, calls, exec_vars, first_block, tip,
                   prune_modes, entry, block, stored, block_queue, batch, pos,
                   results, output, pre_state, batch_start, batch_no, commits,
                   last_commit, started, merged, inner_receipts,
                   header_root, beacon_diff,
                   taken>>

\* fut_batch is exhausted: the buffered states are committed, execute_batch
\* returns its results and execute_inner goes on to the next batch.
CommitBatch ==
    /\ UNCHANGED <<discovery_vars, start_vars, network_vars>>
    /\ pc = "collect"
    /\ fut_batch = <<>>
    /\ state' = Commit(state, states)
    /\ transition_state' = transition_state + Len(states)
    /\ last_commit' = [i \in 1..Len(states) |-> CommitOrder(states)[i].of]
    /\ commits' = commits + 1
    /\ results' = results \o batch_results
    /\ IF batch_no < Len(block_queue)
       THEN EnterBatch(block_queue, batch_no + 1, state')
       ELSE /\ pc' = "finish"
            /\ batch_results' = <<>>
            /\ states' = <<>>
            /\ UNCHANGED <<batch, pos, fut_batch, batch_start, batch_no>>
    /\ UNCHANGED <<chain_spec, budget, calls, bundle_state, state_clear_flag,
                   data_vars, entry, block, stored, block_queue, job, ret,
                   output, pre_state, started, merged, inner_receipts,
                   header_root,
                   beacon_diff, ok_blocks, err_seen, taken>>

\* ------------------------------------------------------------ execute_inner
\* The queue execute_inner uses: the stored one, or one singleton batch per
\* transaction in body order.
QueueOrDefaultOneBatch(q, body) ==
    IF IsSome(q) THEN Unwrap(q) ELSE << [i \in 1..Len(body) |-> i - 1] >>

QueueOrDefault(q, body) ==
    IF IsSome(q) THEN Unwrap(q) ELSE [i \in 1..Len(body) |-> <<i - 1>>]

\* results.sort_unstable_by_key(|(idx, _)| *idx)
SortResultsOmitted(rs) == rs

SortResults(rs) == SortByIdx(rs)

\* The receipts built from the body zipped with the sorted results.
BuildReceiptsPerTxGas(body, sorted) ==
    LET n == IF Len(body) <= Len(sorted) THEN Len(body) ELSE Len(sorted)
    IN [i \in 1..n |->
          [tx_type |-> body[i].tx_type,
           success |-> sorted[i].success,
           cumulative_gas_used |-> sorted[i].gas_used,
           logs |-> sorted[i].logs]]

BuildReceipts(body, sorted) ==
    LET n == IF Len(body) <= Len(sorted) THEN Len(body) ELSE Len(sorted)
    IN [i \in 1..n |->
          [tx_type |-> body[i].tx_type,
           success |-> sorted[i].success,
           cumulative_gas_used |-> SumGas(SubSeq(sorted, 1, i)),
           logs |-> sorted[i].logs]]

\* cumulative_gas_used after the walk over the body.
CumulativeGasUsed(rcpts) ==
    IF rcpts = <<>> THEN 0 ELSE rcpts[Len(rcpts)].cumulative_gas_used

\* Database failures the post-block state change can meet.
Faults == {"none", "drain", "increment"}

\* apply_post_execution_state_change on the account values s:
\* [err, state, transitions], the last being the transitions it adds.
ApplyPostExecutionStateChangeDrainLost(s, spec, blk, fault) ==
    LET incr0 == PostBlockBalanceIncrements(spec, blk)
        dao == TransitionsAtBlock(spec.dao, blk.number)
        s1 == IF dao THEN DrainBalances(s, DaoHardforkAccounts) ELSE s
        t1 == IF dao THEN Cardinality(DaoHardforkAccounts) ELSE 0
    IN IF dao /\ fault = "drain"
       THEN [err |-> TRUE, state |-> s, transitions |-> 0]
       ELSE IF fault = "increment"
       THEN [err |-> TRUE, state |-> s1, transitions |-> t1]
       ELSE [err |-> FALSE, state |-> IncrementBalances(s1, incr0),
             transitions |-> t1 + Cardinality({a \in Accounts : incr0[a] # 0})]

ApplyPostExecutionStateChange(s, spec, blk, fault) ==
    LET incr0 == PostBlockBalanceIncrements(spec, blk)
        dao == TransitionsAtBlock(spec.dao, blk.number)
        drained == SumBalances(s, DaoHardforkAccounts)
        s1 == IF dao THEN DrainBalances(s, DaoHardforkAccounts) ELSE s
        t1 == IF dao THEN Cardinality(DaoHardforkAccounts) ELSE 0
        incr1 == IF dao
                 THEN [incr0 EXCEPT ![DaoHardforkBeneficiary] = @ + drained]
                 ELSE incr0
    IN IF dao /\ fault = "drain"
       THEN [err |-> TRUE, state |-> s, transitions |-> 0]
       ELSE IF fault = "increment"
       THEN [err |-> TRUE, state |-> s1, transitions |-> t1]
       ELSE [err |-> FALSE, state |-> IncrementBalances(s1, incr1),
             transitions |-> t1 + Cardinality({a \in Accounts : incr1[a] # 0})]

\* The steps of execute_inner after the receipts are built act on a record x
\* of the executor's fields: [ret, state, transition_state, bundle_state,
\* first_block, merged]; x.ret is RetOk until a step fails and returns.

\* if block.gas_used != cumulative_gas_used { return Err(BlockGasUsed) }
GasCheckGotExpectedSwapped(x, blk, cumulative_gas_used) ==
    IF blk.gas_used # cumulative_gas_used
    THEN [x EXCEPT !.ret = RetGas(blk.gas_used, cumulative_gas_used)]
    ELSE x

GasCheck(x, blk, cumulative_gas_used) ==
    IF blk.gas_used # cumulative_gas_used
    THEN [x EXCEPT !.ret = RetGas(cumulative_gas_used, blk.gas_used)]
    ELSE x

\* self.apply_post_execution_state_change(block, total_difficulty)?
PostExecution(x, spec, blk, fault) ==
    IF x.ret # RetOk THEN x
    ELSE LET post == ApplyPostExecutionStateChange(x.state, spec, blk, fault)
         IN [x EXCEPT !.state = post.state,
                      !.transition_state = @ + post.transitions,
                      !.ret = IF post.err THEN RetErr("IncrementBalanceFailed")
                              ELSE RetOk]

\* self.state_mut().merge_transitions(retention)
MergeTransitionsAlways(x) ==
    [x EXCEPT !.bundle_state = @ + x.transition_state,
              !.transition_state = 0,
              !.merged = TRUE]

MergeTransitions(x) ==
    IF x.ret # RetOk THEN x
    ELSE [x EXCEPT !.bundle_state = @ + x.transition_state,
                   !.transition_state = 0,
                   !.merged = TRUE]

\* if self.data.first_block.is_none() { first_block = Some(block.number) }
SetFirstBlockAlways(x, blk) ==
    IF x.ret # RetOk THEN x
    ELSE [x EXCEPT !.first_block = Some(blk.number)]

SetFirstBlock(x, blk) ==
    IF x.ret # RetOk THEN x
    ELSE IF IsNone(x.first_block)
    THEN [x EXCEPT !.first_block = Some(blk.number)]
    ELSE x

\* perf: do not execute empty blocks: if block.body.is_empty() { return Ok(..) }
EmptyBodyFastPathOmitted(blk) == FALSE

EmptyBodyFastPath(blk) == blk.body = <<>>

\* A call of execute or execute_and_verify_receipt, up to its first batch:
\* state clear flag, pre-block beacon root call, empty-body return, queue.
Execute(kind, blk, q) ==
    /\ UNCHANGED <<discovery_vars, start_vars, network_vars>>
    /\ pc = "idle"
    /\ calls < budget.calls
    /\ calls' = calls + 1
    /\ entry' = kind
    /\ block' = blk
    /\ stored' = q
    /\ state_clear_flag' = ActiveAtBlock(chain_spec.spurious_dragon, blk.number)
    /\ pre_state' = state
    /\ commits' = 0
    /\ last_commit' = <<>>
    /\ started' = {}
    /\ merged' = FALSE
    /\ results' = <<>>
    /\ LET pre == ExecuteBeaconRootContractCall(chain_spec, blk)
           queue == QueueOrDefault(q, blk.body)
       IN /\ beacon_diff' = IsSome(pre.diff)
          /\ state' = Commit(state, pre.diff)
          /\ transition_state' = transition_state + Len(pre.diff)
          /\ IF pre.err
             THEN /\ ReturnErr(RetErr("MissingParentBeaconBlockRoot"))
                  /\ inner_receipts' = NoneOpt
                  /\ header_root' = NoneOpt
                  /\ DropLocals
                  /\ block_queue' = <<>>
                  /\ batch' = <<>>
                  /\ pos' = 1
                  /\ batch_no' = 0
                  /\ batch_start' = state'
             ELSE IF EmptyBodyFastPath(blk)
             THEN /\ \E root \in {ReceiptsRoot(<<>>), BadRoot} :
                        ReturnFromInner(kind, blk, first_block, <<>>, root)
                  /\ DropLocals
                  /\ block_queue' = <<>>
                  /\ batch' = <<>>
                  /\ pos' = 1
                  /\ batch_no' = 0
                  /\ batch_start' = state'
             ELSE IF queue = <<>>
             THEN /\ pc' = "finish"
                  /\ DropLocals
                  /\ block_queue' = queue
                  /\ batch' = <<>>
                  /\ pos' = 1
                  /\ batch_no' = 0
                  /\ batch_start' = state'
                  /\ ret' = NoneOpt
                  /\ inner_receipts' = NoneOpt
                  /\ header_root' = NoneOpt
                  /\ UNCHANGED <<receipts, ok_blocks, err_seen>>
             ELSE /\ EnterBatch(queue, 1, state')
                  /\ block_queue' = queue
                  /\ job' = NoneOpt
                  /\ ret' = NoneOpt
                  /\ inner_receipts' = NoneOpt
                  /\ header_root' = NoneOpt
                  /\ UNCHANGED <<receipts, ok_blocks, err_seen>>
    /\ UNCHANGED <<chain_spec, budget, bundle_state, first_block, tip,
                   prune_modes, output, taken>>

\* The rest of execute_inner after the last batch, and the return through
\* execute or execute_and_verify_receipt: sort, receipts, gas check, post-block
\* state change, merge_transitions, first_block, verification, save_receipts.
Finish ==
    /\ UNCHANGED <<discovery_vars, start_vars, network_vars>>
    /\ pc = "finish"
    /\ LET sorted == SortResults(results)
           rcpts == BuildReceipts(block.body, sorted)
           x0 == [ret |-> RetOk, state |-> state,
                  transition_state |-> transition_state,
                  bundle_state |-> bundle_state,
                  first_block |-> first_block, merged |-> merged]
       IN \E fault \in Faults :
            LET x == SetFirstBlock(
                       MergeTransitions(
                         PostExecution(
                           GasCheck(x0, block, CumulativeGasUsed(rcpts)),
                           chain_spec, block, fault)),
                       block)
            IN /\ state' = x.state
               /\ transition_state' = x.transition_state
               /\ bundle_state' = x.bundle_state
               /\ first_block' = x.first_block
               /\ merged' = x.merged
               /\ IF x.ret # RetOk
                  THEN ReturnErr(x.ret) /\ UNCHANGED <<inner_receipts, header_root>>
                  ELSE \E root \in {ReceiptsRoot(rcpts), BadRoot} :
                         ReturnFromInner(entry, block, x.first_block, rcpts, root)
    /\ DropLocals
    /\ UNCHANGED <<chain_spec, budget, calls, state_clear_flag, tip, prune_modes,
                   entry, block, stored, block_queue, batch, pos, results,
                   output, pre_state, batch_start, batch_no, commits,
                   last_commit, started, beacon_diff, taken>>

\* self.data.first_block.unwrap_or_default()
UnwrapOrDefaultOne(fb) == IF IsSome(fb) THEN Unwrap(fb) ELSE 1

UnwrapOrDefault(fb) == IF IsSome(fb) THEN Unwrap(fb) ELSE 0

\* AsyncBlockExecutor::take_output_state
TakeOutputState ==
    /\ UNCHANGED <<discovery_vars, start_vars, network_vars>>
    /\ pc = "idle"
    /\ output' = Some([bundle |-> bundle_state,
                       receipts |-> receipts,
                       first_block |-> UnwrapOrDefault(first_block)])
    /\ bundle_state' = 0
    /\ receipts' = <<>>
    /\ taken' = TRUE
    /\ UNCHANGED <<chain_spec, budget, calls, state, transition_state,
                   state_clear_flag, first_block, tip, prune_modes, pc, entry,
                   block, stored, block_queue, batch, pos, job, fut_batch,
                   batch_results, states, results, ret, pre_state, batch_start,
                   batch_no, commits, last_commit, started, merged,
                   inner_receipts, header_root, beacon_diff, ok_blocks, err_seen>>

\* PrunableAsyncBlockExecutor::set_tip
SetTip(t) ==
    /\ UNCHANGED <<discovery_vars, start_vars, network_vars>>
    /\ pc = "idle"
    /\ tip' = Some(t)
    /\ UNCHANGED <<chain_spec, budget, calls, exec_vars, first_block, receipts,
                   prune_modes, call_vars, hist_vars>>

\* PrunableAsyncBlockExecutor::set_prune_modes
SetPruneModes(m) ==
    /\ UNCHANGED <<discovery_vars, start_vars, network_vars>>
    /\ pc = "idle"
    /\ prune_modes' = m
    /\ UNCHANGED <<chain_spec, budget, calls, exec_vars, first_block, receipts,
                   tip, call_vars, hist_vars>>

EntryPoints == {"execute", "execute_and_verify_receipt"}

\* The single-block specification draws the stored queue; the multi-block
\* specification runs with an empty store.
StoredQueues(blk) ==
    IF budget.blocks = "single" THEN QueuesByLen[Len(blk.body)] ELSE { NoneOpt }

CallerBlocks == IF budget.blocks = "single" THEN SingleBlocks ELSE ChainBlocks

Call ==
    /\ pc = "idle"
    /\ calls < budget.calls
    /\ \E kind \in EntryPoints, blk \in CallerBlocks :
          \E q \in StoredQueues(blk) : Execute(kind, blk, q)

Setters ==
    \/ SetTip(MaxBlockNum)
    \/ \E m \in {"none", "full"} : SetPruneModes(m)

\* The steps of one call.
Next ==
    \/ Call
    \/ Spawn
    \/ JobFinish
    \/ Collect
    \/ CommitBatch
    \/ Finish

\* The calls of an executor's life: blocks, take_output_state and the pruning
\* setters between them.
NextChain ==
    \/ Next
    \/ TakeOutputState
    \/ Setters

\* One call of execute or execute_and_verify_receipt on a fresh executor.
Spec == Init /\ [][Next]_vars

\* Several calls on one executor.
SpecChain == InitChain /\ [][NextChain]_vars


\* ================================================ discovery coordinator
\* events discv5 emits, and updates discv4 emits, during a run
MaxEvents == 2

\* The node records of the remote peers: discv5 node id and public key.
Enrs == { [node_id |-> "n1", pk |-> "k1"], [node_id |-> "n2", pk |-> "k2"] }

\* The peer id of a public key:
\* PeerId::from_slice(&PublicKey::from_slice(&pk_bytes)?.serialize_uncompressed()[1..])
PeerIdOf(pk) == CASE pk = "k1" -> "p1" [] pk = "k2" -> "p2"

PeerIds == { PeerIdOf(enr.pk) : enr \in Enrs }

\* read_kbuckets_callback: the peer ids of all entries of discv5's kbuckets
\* (the keys are secp256k1 keys, as the callback's debug_assert states).
ReadKbucketsCallbackEmpty == {}

ReadKbucketsCallback == { PeerIdOf(enr.pk) : enr \in kbuckets }

\* The events of discv5 and whether an event implies a mutation of the
\* kbuckets.
V5EventKinds == {"Discovered", "NodeInserted", "SessionEstablished", "NodeRemoved"}

Mutating(event) ==
    event.kind \in {"NodeInserted", "SessionEstablished", "NodeRemoved"}

\* The elements of the finite set S in some order.
RECURSIVE SetToSeq(_)
SetToSeq(S) ==
    IF S = {} THEN <<>>
    ELSE LET x == CHOOSE y \in S : TRUE IN <<x>> \o SetToSeq(S \ {x})

\* discv5::Discv5::add_enr: the record is in the table when the call returns
\* Ok, and the table is as before when it returns Err.
AddEnrDeferred(table, enr, accepted) == table

AddEnr(table, enr, accepted) ==
    IF accepted THEN table \cup {enr} ELSE table

\* DiscV5::add_node (HandleDiscovery::add_node_to_routing_table): add_enr
\* puts the record into the kbuckets, or rejects it and add_node returns
\* Error::AddNodeToDiscv5Failed; no event is emitted and nothing is sent on
\* the watch channel.
AddNode(enr) ==
    /\ enr \notin kbuckets
    /\ \E accepted \in BOOLEAN :
          /\ kbuckets' = AddEnr(kbuckets, enr, accepted)
          /\ add_node_ret' =
                Some([enr |-> enr,
                      kind |-> IF accepted THEN "Ok"
                               ELSE "AddNodeToDiscv5Failed"])
    /\ UNCHANGED <<discv4_table, discv5_updates, discv4_updates,
                   discv5_kbuckets_change, disc_update, yielded, v5_emitted,
                   v4_emitted, ticks_sent>>
    /\ UNCHANGED <<executor_vars, start_vars, network_vars>>

\* The discv5 service changes its kbuckets and emits the event of the change
\* on discv5_updates.  A session does not always put the peer in the kbuckets.
Discv5Emit(kind, enr) ==
    /\ Len(v5_emitted) < MaxEvents
    /\ CASE kind = "Discovered" -> UNCHANGED kbuckets
         [] kind = "NodeInserted" ->
              enr \notin kbuckets /\ kbuckets' = kbuckets \cup {enr}
         [] kind = "SessionEstablished" ->
              \E inserted \in BOOLEAN :
                 kbuckets' = IF inserted THEN kbuckets \cup {enr} ELSE kbuckets
         [] kind = "NodeRemoved" ->
              enr \in kbuckets /\ kbuckets' = kbuckets \ {enr}
    /\ LET event == [kind |-> kind, node |-> enr.node_id,
                     seq |-> Len(v5_emitted) + 1]
       IN /\ discv5_updates' = Append(discv5_updates, event)
          /\ v5_emitted' = Append(v5_emitted, event)
    /\ UNCHANGED <<discv4_table, discv4_updates, discv5_kbuckets_change,
                   disc_update, yielded, v4_emitted, ticks_sent,
                   add_node_ret>>
    /\ UNCHANGED <<executor_vars, start_vars, network_vars>>

\* The updates discv4 emits for the peer ids ids, numbered from seq0 + 1.
Discv4Updates(kind, ids, seq0) ==
    [i \in 1..Len(ids) |-> [kind |-> kind, id |-> ids[i], seq |-> seq0 + i]]

\* The mirror filters a would-be insertion against the keys of discv5.
Discv4Accepts(peer_id) == peer_id \notin ReadKbucketsCallback

\* discv4 (bound as secondary node) learns of a peer: it enters the mirror
\* table unless discv5 has it.
Discv4Candidate(peer_id) ==
    /\ Len(v4_emitted) < MaxEvents
    /\ peer_id \notin discv4_table
    /\ Discv4Accepts(peer_id)
    /\ discv4_table' = discv4_table \cup {peer_id}
    /\ LET added == Discv4Updates("Added", <<peer_id>>, Len(v4_emitted))
       IN /\ discv4_updates' = discv4_updates \o added
          /\ v4_emitted' = v4_emitted \o added
    /\ UNCHANGED <<kbuckets, discv5_updates, discv5_kbuckets_change,
                   disc_update, yielded, v5_emitted, ticks_sent,
                   add_node_ret>>
    /\ UNCHANGED <<executor_vars, start_vars, network_vars>>

\* discv4 sees the notification: it reads the keys of discv5 and evicts the
\* mirrored peers discv5 has.
Discv4OnKbucketsChange ==
    /\ discv5_kbuckets_change
    /\ discv5_kbuckets_change' = FALSE
    /\ LET evicted == discv4_table \cap ReadKbucketsCallback
           removed == Discv4Updates("Removed", SetToSeq(evicted), Len(v4_emitted))
       IN /\ discv4_table' = discv4_table \ evicted
          /\ discv4_updates' = discv4_updates \o removed
          /\ v4_emitted' = v4_emitted \o removed
    /\ UNCHANGED <<kbuckets, discv5_updates, disc_update, yielded, v5_emitted,
                   ticks_sent,
                   add_node_ret>>
    /\ UNCHANGED <<executor_vars, start_vars, network_vars>>

\* DiscoveryUpdateV5::V5(event) and DiscoveryUpdateV5::V4(update)
V5Update(event) == [tag |-> "V5", update |-> event]

V4UpdateTaggedV5(update) == [tag |-> "V5", update |-> update]

V4Update(update) == [tag |-> "V4", update |-> update]

\* The events of discv5 on which the merged stream fires the notification.
FiresChangeOnInsertOnly(event) == event.kind = "NodeInserted"

FiresChange(event) == Mutating(event)

\* MergedUpdateStream polls the next event of discv5: on an event that
\* mutates the kbuckets it sends on discv5_kbuckets_change_tx, then it
\* returns V5(event).
MergedPollV5 ==
    /\ IsNone(disc_update)
    /\ discv5_updates # <<>>
    /\ LET event == Head(discv5_updates)
       IN /\ disc_update' = Some(V5Update(event))
          /\ discv5_kbuckets_change' =
                (IF FiresChange(event) THEN TRUE ELSE discv5_kbuckets_change)
          /\ ticks_sent' = ticks_sent + (IF FiresChange(event) THEN 1 ELSE 0)
    /\ discv5_updates' = Tail(discv5_updates)
    /\ UNCHANGED <<kbuckets, discv4_table, discv4_updates, yielded, v5_emitted,
                   v4_emitted, add_node_ret>>
    /\ UNCHANGED <<executor_vars, start_vars, network_vars>>

\* MergedUpdateStream polls the next update of discv4 and returns V4(update).
MergedPollV4 ==
    /\ IsNone(disc_update)
    /\ discv4_updates # <<>>
    /\ disc_update' = Some(V4Update(Head(discv4_updates)))
    /\ discv4_updates' = Tail(discv4_updates)
    /\ UNCHANGED <<kbuckets, discv4_table, discv5_updates,
                   discv5_kbuckets_change, yielded, v5_emitted, v4_emitted,
                   ticks_sent,
                   add_node_ret>>
    /\ UNCHANGED <<executor_vars, start_vars, network_vars>>

\* One iteration of `while let Some(Poll::Ready(Some(update))) = ..` in
\* Discovery::poll_next: the update is matched on and handed to
\* on_discv4_update or on_discv5_update.
PollNextUpdate ==
    /\ IsSome(disc_update)
    /\ yielded' = Append(yielded, Unwrap(disc_update))
    /\ disc_update' = NoneOpt
    /\ UNCHANGED <<kbuckets, discv4_table, discv5_updates, discv4_updates,
                   discv5_kbuckets_change, v5_emitted, v4_emitted, ticks_sent,
                   add_node_ret>>
    /\ UNCHANGED <<executor_vars, start_vars, network_vars>>

\* The discovery coordinator with both protocols running; no block is
\* executed.
InitDiscv5WithV4Downgrade ==
    /\ InitDiscV5(DefaultConfig)
    /\ InitDiscovery
    /\ InitNetwork
    /\ InitExecutor
    /\ chain_spec.dao = 1
    /\ budget = [calls |-> 0, blocks |-> "single"]

NextDiscovery ==
    \/ \E enr \in Enrs : AddNode(enr)
    \/ \E kind \in V5EventKinds, enr \in Enrs : Discv5Emit(kind, enr)
    \/ \E peer_id \in PeerIds : Discv4Candidate(peer_id)
    \/ Discv4OnKbucketsChange
    \/ MergedPollV5
    \/ MergedPollV4
    \/ PollNextUpdate

SpecDiscovery == InitDiscv5WithV4Downgrade /\ [][NextDiscovery]_vars

\* The services keep running: the discv4 task is woken by the watch channel,
\* and the owner of Discovery keeps polling it, which polls the merged
\* stream.
FairDiscovery ==
    /\ WF_vars(Discv4OnKbucketsChange)
    /\ WF_vars(MergedPollV5)
    /\ WF_vars(MergedPollV4)
    /\ WF_vars(PollNextUpdate)

SpecDiscoveryLive == SpecDiscovery /\ FairDiscovery


\* ======================================================= discv5 wrapper
\* bootstrap nodes of a configuration
MaxBoots == 2
\* find_node_predicate queries of the self-lookup task during a run
MaxLookups == 2
\* the largest sequence number of a record (u64::MAX in the code)
MaxSeq == 3

\* discv5::ListenConfig: Ipv4 { ip, port }, Ipv6 { ip, port },
\* DualStack { ipv4, ipv4_port, ipv6, ipv6_port }
ListenConfigs ==
    { [mode |-> m, ipv4 |-> "l4", ipv4_port |-> 9004, ipv6 |-> "l6",
       ipv6_port |-> 9006] : m \in {"Ipv4", "Ipv6", "DualStack"} }

\* BootNode::Enr(record) and BootNode::Enode(multiaddr)
BootNodes ==
    { [kind |-> k, node |-> n] : k \in {"Enr", "Enode"}, n \in {"b1", "b2"} }

\* bootstrap_nodes is a HashSet: the loop of start meets its elements, all
\* different, in some order.
BootstrapNodes ==
    UNION { { s \in [1..n -> BootNodes] :
                \A i, j \in 1..n : i # j => s[i] # s[j] } : n \in 0..MaxBoots }

DiscV5Configs ==
    { [listen_config |-> l, tcp_port |-> 30303, bootstrap_nodes |-> b] :
        l \in ListenConfigs, b \in BootstrapNodes }

\* The keys of a record's key/value entries: the fork id and one more.
EnrKeys == {"eth", "opstack"}

EnrValues == {1, 2}

\* discv5::enr::Enr::builder(): a record with nothing set, sequence number 1.
EnrBuilder ==
    [seq |-> 1, ip4 |-> NoneOpt, udp4 |-> NoneOpt, tcp4 |-> NoneOpt,
     ip6 |-> NoneOpt, udp6 |-> NoneOpt, tcp6 |-> NoneOpt,
     kv |-> [k \in EnrKeys |-> NoneOpt]]

\* The local record start builds from the listen configuration, the
\* advertised TCP port and the fork id.
BuildLocalEnr(listen_config, tcp_port) ==
    LET b == EnrBuilder
        l == listen_config
        sockets ==
            CASE l.mode = "Ipv4" ->
                   [b EXCEPT !.ip4 = Some(l.ipv4), !.udp4 = Some(l.ipv4_port),
                             !.tcp4 = Some(tcp_port)]
              [] l.mode = "Ipv6" ->
                   [b EXCEPT !.ip6 = Some(l.ipv6), !.udp6 = Some(l.ipv6_port),
                             !.tcp6 = Some(tcp_port)]
              [] l.mode = "DualStack" ->
                   [b EXCEPT !.ip4 = Some(l.ipv4), !.udp4 = Some(l.ipv4_port),
                             !.tcp4 = Some(tcp_port),
                             !.ip6 = Some(l.ipv6), !.udp6 = Some(l.ipv6_port)]
    IN [sockets EXCEPT !.kv["eth"] = Some(1)]

\* The IpMode start derives from the listen configuration.
IpModeOf(listen_config) ==
    CASE listen_config.mode = "Ipv4" -> "Ip4"
      [] listen_config.mode = "Ipv6" -> "Ip6"
      [] listen_config.mode = "DualStack" -> "DualStack"

\* Enr::udp4_socket and Enr::udp6_socket: the ip and the port, if both are set.
Udp4Socket(enr) ==
    IF IsSome(enr.ip4) /\ IsSome(enr.udp4)
    THEN Some([ip |-> Unwrap(enr.ip4), port |-> Unwrap(enr.udp4)])
    ELSE NoneOpt

Udp6Socket(enr) ==
    IF IsSome(enr.ip6) /\ IsSome(enr.udp6)
    THEN Some([ip |-> Unwrap(enr.ip6), port |-> Unwrap(enr.udp6)])
    ELSE NoneOpt

\* IpMode::get_contactable_addr: the socket of the local ip version; on
\* DualStack ipv6 is preferred for discovery.
GetContactableAddr(ip_mode, enr) ==
    CASE ip_mode = "Ip4" -> Udp4Socket(enr)
      [] ip_mode = "Ip6" -> Udp6Socket(enr)
      [] ip_mode = "DualStack" ->
           IF IsSome(Udp6Socket(enr)) THEN Udp6Socket(enr) ELSE Udp4Socket(enr)

\* HandleDiscv5::try_into_reachable
TryIntoReachableNoUdpCheck(ip_mode, enr) ==
    LET udp_socket == GetContactableAddr(ip_mode, enr)
    IN IF IsNone(udp_socket)
       THEN [kind |-> "IpVersionMismatchDiscovery"]
       ELSE [kind |-> "Ok", address |-> Unwrap(udp_socket).ip,
             tcp_port |-> 0, udp_port |-> Unwrap(udp_socket).port]

TryIntoReachable(ip_mode, enr) ==
    IF IsNone(Udp4Socket(enr)) /\ IsNone(Udp6Socket(enr))
    THEN [kind |-> "UnreachableDiscovery"]
    ELSE LET udp_socket == GetContactableAddr(ip_mode, enr)
             tcp_port == IF ip_mode \in {"Ip4", "DualStack"}
                         THEN enr.tcp4 ELSE enr.tcp6
         IN IF IsNone(udp_socket)
            THEN [kind |-> "IpVersionMismatchDiscovery"]
            ELSE IF IsNone(tcp_port)
            THEN [kind |-> "IpVersionMismatchMempool"]
            ELSE [kind |-> "Ok",
                  address |-> Unwrap(udp_socket).ip,
                  tcp_port |-> Unwrap(tcp_port),
                  udp_port |-> Unwrap(udp_socket).port]

\* The records of remote peers handed to try_into_reachable.
OptionOf(S) == { NoneOpt } \cup { Some(x) : x \in S }

DiscoveredEnrs ==
    { [EnrBuilder EXCEPT !.ip4 = i4, !.udp4 = u4, !.tcp4 = t4,
                         !.ip6 = i6, !.udp6 = u6, !.tcp6 = t6] :
        i4 \in OptionOf({"r4"}), u4 \in OptionOf({4}), t4 \in OptionOf({44}),
        i6 \in OptionOf({"r6"}), u6 \in OptionOf({6}), t6 \in OptionOf({66}) }

\* ------------------------------------------------------------ DiscV5::start
StartResults == {"Ok", "InitFailure", "Discv5Error", "Discv5ErrorStr"}

\* start goes on to the next step.
StartStep(step, next_pc) ==
    /\ steps' = Append(steps, step)
    /\ start_pc' = next_pc
    /\ start_ret' = start_ret

\* start returns Err(error) from the step.
StartErr(step, error) ==
    /\ steps' = Append(steps, step)
    /\ start_pc' = "returned"
    /\ start_ret' = Some([kind |-> error])

\* 1. make local enr from listen config: builder.build(sk).expect(..) panics
\* when the record cannot be built or signed.
BuildEnr ==
    /\ start_pc = "build_enr"
    /\ \E built \in BOOLEAN :
          IF built
          THEN /\ local_enr' =
                     Some(BuildLocalEnr(config.listen_config, config.tcp_port))
               /\ StartStep("BuildEnr", "new")
          ELSE /\ local_enr' = local_enr
               /\ steps' = Append(steps, "BuildEnr")
               /\ start_pc' = "panicked"
               /\ start_ret' = start_ret
    /\ UNCHANGED <<config, discv5, discv5_events, boot_idx, boot_enrs,
                   enr_requests, self_lookup, reachable, updated, lookups, lookup_results>>
    /\ UNCHANGED <<executor_vars, discovery_vars, network_vars>>

\* discv5::Discv5::new(enr, sk, discv5_config)
Discv5New ==
    /\ start_pc = "new"
    /\ \E created \in BOOLEAN :
          IF created
          THEN discv5' = "created" /\ StartStep("CreateKademlia", "start")
          ELSE discv5' = discv5 /\ StartErr("CreateKademlia", "InitFailure")
    /\ UNCHANGED <<config, local_enr, discv5_events, boot_idx, boot_enrs,
                   enr_requests, self_lookup, reachable, updated, lookups, lookup_results>>
    /\ UNCHANGED <<executor_vars, discovery_vars, network_vars>>

\* discv5.start().await.map_err(Error::Discv5Error)?
Discv5Start ==
    /\ start_pc = "start"
    /\ \E running \in BOOLEAN :
          IF running
          THEN discv5' = "started" /\ StartStep("Start", "event_stream")
          ELSE discv5' = discv5 /\ StartErr("Start", "Discv5Error")
    /\ UNCHANGED <<config, local_enr, discv5_events, boot_idx, boot_enrs,
                   enr_requests, self_lookup, reachable, updated, lookups, lookup_results>>
    /\ UNCHANGED <<executor_vars, discovery_vars, network_vars>>

\* discv5.event_stream().await.map_err(Error::Discv5Error)?
EventStream ==
    /\ start_pc = "event_stream"
    /\ \E subscribed \in BOOLEAN :
          IF subscribed
          THEN discv5_events' = TRUE /\ StartStep("EventStream", "boot_nodes")
          ELSE /\ discv5_events' = discv5_events
               /\ StartErr("EventStream", "Discv5Error")
    /\ UNCHANGED <<config, local_enr, discv5, boot_idx, boot_enrs,
                   enr_requests, self_lookup, reachable, updated, lookups, lookup_results>>
    /\ UNCHANGED <<executor_vars, discovery_vars, network_vars>>

\* add_enr has refused a boot record: return Err(Error::Discv5ErrorStr(err))
AddEnrErrOnlyLogged ==
    /\ StartStep("AddEnr", "boot_nodes")
    /\ boot_idx' = boot_idx + 1
    /\ UNCHANGED <<boot_enrs, enr_requests>>

AddEnrErr ==
    /\ StartErr("AddEnr", "Discv5ErrorStr")
    /\ UNCHANGED <<boot_enrs, boot_idx, enr_requests>>

\* 4. add boot nodes, one iteration of `for node in bootstrap_nodes`: a
\* record goes to add_enr, whose error ends start; for a URI a task that
\* requests the record is spawned.
AddBootNode ==
    /\ start_pc = "boot_nodes"
    /\ boot_idx < Len(config.bootstrap_nodes)
    /\ LET node == config.bootstrap_nodes[boot_idx + 1]
       IN IF node.kind = "Enr"
          THEN \E added \in BOOLEAN :
                  IF added
                  THEN /\ boot_enrs' = boot_enrs \cup {node.node}
                       /\ boot_idx' = boot_idx + 1
                       /\ StartStep("AddEnr", "boot_nodes")
                       /\ enr_requests' = enr_requests
                  ELSE AddEnrErr
          ELSE /\ enr_requests' =
                     Append(enr_requests, [enode |-> node.node, st |-> "pending"])
               /\ boot_idx' = boot_idx + 1
               /\ StartStep("SpawnRequestEnr", "boot_nodes")
               /\ boot_enrs' = boot_enrs
    /\ UNCHANGED <<config, local_enr, discv5, discv5_events, self_lookup,
                   reachable, updated, lookups, lookup_results>>
    /\ UNCHANGED <<executor_vars, discovery_vars, network_vars>>

\* `_ = join_all(enr_requests);`: the future that would wait for the tasks is
\* made and dropped without being polled, so start goes on at once.
JoinAll ==
    /\ start_pc = "boot_nodes"
    /\ boot_idx = Len(config.bootstrap_nodes)
    /\ StartStep("JoinAll", "spawn_self_lookup")
    /\ UNCHANGED <<config, local_enr, discv5, discv5_events, boot_idx,
                   boot_enrs, enr_requests, self_lookup, reachable, updated, lookups,
                   lookup_results>>
    /\ UNCHANGED <<executor_vars, discovery_vars, network_vars>>

\* task::spawn of the self-lookup loop.
SpawnSelfLookup ==
    /\ start_pc = "spawn_self_lookup"
    /\ self_lookup' = "loop"
    /\ StartStep("SpawnSelfLookup", "return")
    /\ UNCHANGED <<config, local_enr, discv5, discv5_events, boot_idx,
                   boot_enrs, enr_requests, reachable, updated, lookups, lookup_results>>
    /\ UNCHANGED <<executor_vars, discovery_vars, network_vars>>

\* Ok((DiscV5::new(..), discv5_updates, bc_enr))
ReturnOk ==
    /\ start_pc = "return"
    /\ steps' = Append(steps, "Running")
    /\ start_pc' = "returned"
    /\ start_ret' = Some([kind |-> "Ok"])
    /\ UNCHANGED <<config, local_enr, discv5, discv5_events, boot_idx,
                   boot_enrs, enr_requests, self_lookup, reachable, updated, lookups,
                   lookup_results>>
    /\ UNCHANGED <<executor_vars, discovery_vars, network_vars>>

\* A spawned request task finishes: discv5.request_enr(enode).await returned,
\* and its error, if any, was logged ("failed adding boot node").  The task
\* runs on the runtime whatever start does meanwhile.
EnrRequestFinish(i) ==
    /\ i \in 1..Len(enr_requests)
    /\ enr_requests[i].st = "pending"
    /\ \E st \in {"ok", "logged"} :
          enr_requests' = [enr_requests EXCEPT ![i].st = st]
    /\ UNCHANGED <<config, start_pc, start_ret, local_enr, discv5,
                   discv5_events, boot_idx, boot_enrs, self_lookup, reachable, updated,
                   steps, lookups, lookup_results>>
    /\ UNCHANGED <<executor_vars, discovery_vars, network_vars>>

\* ------------------------------------------------------ self-lookup task
\* Top of the loop: find_node_predicate(local_node_id, predicate, ..) is
\* issued.
SelfLookupIssue ==
    /\ self_lookup = "loop"
    /\ lookups < MaxLookups
    /\ self_lookup' = "lookup"
    /\ lookups' = lookups + 1
    /\ UNCHANGED <<config, start_pc, start_ret, local_enr, discv5,
                   discv5_events, boot_idx, boot_enrs, enr_requests, reachable, updated,
                   steps, lookup_results>>
    /\ UNCHANGED <<executor_vars, discovery_vars, network_vars>>

\* Where the task goes once the query has returned result: both arms of the
\* match only trace, then the task sleeps.
AfterLookupEndsOnErr(result) == IF result = "Err" THEN "none" ELSE "sleep"

AfterLookup(result) == "sleep"

\* The query finishes; Err is traced, Ok is traced; then
\* tokio::time::sleep(self_lookup_interval).
SelfLookupFinish ==
    /\ self_lookup = "lookup"
    /\ \E result \in {"Ok", "Err"} :
          /\ lookup_results' = Append(lookup_results, result)
          /\ self_lookup' = AfterLookup(result)
    /\ UNCHANGED <<config, start_pc, start_ret, local_enr, discv5,
                   discv5_events, boot_idx, boot_enrs, enr_requests, reachable, updated,
                   steps, lookups>>
    /\ UNCHANGED <<executor_vars, discovery_vars, network_vars>>

\* The sleep is over: next iteration.
SelfLookupWake ==
    /\ self_lookup = "sleep"
    /\ self_lookup' = "loop"
    /\ UNCHANGED <<config, start_pc, start_ret, local_enr, discv5,
                   discv5_events, boot_idx, boot_enrs, enr_requests, reachable, updated,
                   steps, lookups, lookup_results>>
    /\ UNCHANGED <<executor_vars, discovery_vars, network_vars>>

\* ------------------------------------------------------------- the handle
Running == IsSome(start_ret) /\ Unwrap(start_ret).kind = "Ok"

\* try_into_reachable(enr) on the handle start returned.
TryIntoReachableCall(enr) ==
    /\ Running
    /\ LET ip_mode == IpModeOf(config.listen_config)
       IN reachable' = Some([enr |-> enr, ip_mode |-> ip_mode,
                             result |-> TryIntoReachable(ip_mode, enr)])
    /\ UNCHANGED <<config, start_pc, start_ret, local_enr, discv5,
                   discv5_events, boot_idx, boot_enrs, enr_requests,
                   self_lookup, updated, steps, lookups, lookup_results>>
    /\ UNCHANGED <<executor_vars, discovery_vars, network_vars>>

\* Discv5::enr_insert(key, value): the entry is set, the sequence number goes
\* up by one and the record is signed again; when the number cannot go up or
\* the record gets too large, the record stays as it was and Err is returned.
EnrInsertKeepsSeq(enr, key, value, fits) ==
    IF fits THEN [enr EXCEPT !.kv[key] = Some(value)] ELSE enr

EnrInsert(enr, key, value, fits) ==
    IF enr.seq < MaxSeq /\ fits
    THEN [enr EXCEPT !.seq = enr.seq + 1, !.kv[key] = Some(value)]
    ELSE enr

\* The keys handed to set_eip868_in_local_enr: those of EnrKeys, and bytes
\* that are not utf-8.
KeyBytes == EnrKeys \cup {"not utf-8"}

IsUtf8Lossy(key) == TRUE

IsUtf8(key) == key \in EnrKeys

\* Discv5::enr_insert returns Ok exactly when it changed the record.
EnrInsertIsOk(enr, fits) == enr.seq < MaxSeq /\ fits

\* DiscV5::update_local_enr (set_eip868_in_local_enr and
\* encode_and_set_eip868_in_local_enr): a key that is not utf-8 and a failed
\* enr_insert are logged, and the function returns () in every case.
UpdateLocalEnr(key, rlp) ==
    /\ Running
    /\ \E fits \in BOOLEAN :
          /\ local_enr' =
                IF IsUtf8(key)
                THEN Some(EnrInsert(Unwrap(local_enr), key, rlp, fits))
                ELSE local_enr
          /\ updated' =
                Some([key |-> key, value |-> rlp, before |-> local_enr,
                      logged |->
                         IF ~(key \in EnrKeys) THEN "key not utf-8"
                         ELSE IF ~EnrInsertIsOk(Unwrap(local_enr), fits)
                              THEN "failed to update local enr"
                              ELSE "",
                      ret |-> "()"])
    /\ UNCHANGED <<config, start_pc, start_ret, discv5, discv5_events,
                   boot_idx, boot_enrs, enr_requests, self_lookup, reachable,
                   steps, lookups, lookup_results>>
    /\ UNCHANGED <<executor_vars, discovery_vars, network_vars>>

\* start was called with any configuration; no block is executed and the
\* downgrade to discv4 is not in use.
InitStart ==
    /\ \E cfg \in DiscV5Configs : InitDiscV5(cfg)
    /\ InitDiscovery
    /\ InitNetwork
    /\ InitExecutor
    /\ chain_spec.dao = 1
    /\ budget = [calls |-> 0, blocks |-> "single"]

\* start without bootstrap nodes, for the operations of the handle.
InitHandle ==
    /\ InitStart
    /\ config.bootstrap_nodes = <<>>

StartSteps ==
    \/ BuildEnr
    \/ Discv5New
    \/ Discv5Start
    \/ EventStream
    \/ AddBootNode
    \/ JoinAll
    \/ SpawnSelfLookup
    \/ ReturnOk

\* start, the request tasks it spawns and the self-lookup task.
NextStart ==
    \/ StartSteps
    \/ \E i \in 1..MaxBoots : EnrRequestFinish(i)
    \/ SelfLookupIssue
    \/ SelfLookupFinish
    \/ SelfLookupWake

\* start and the calls on the handle it returns.
NextHandle ==
    \/ BuildEnr
    \/ Discv5New
    \/ Discv5Start
    \/ EventStream
    \/ JoinAll
    \/ SpawnSelfLookup
    \/ ReturnOk
    \/ \E enr \in DiscoveredEnrs : TryIntoReachableCall(enr)
    \/ \E key \in KeyBytes, rlp \in EnrValues : UpdateLocalEnr(key, rlp)

SpecStart == InitStart /\ [][NextStart]_vars

SpecHandle == InitHandle /\ [][NextHandle]_vars



\* ================================================== discv5 config builder
\* characters of the string handed to a parser
MaxInputLen == 4

\* The text of a serialized signed record, of an enode URL, and text that is
\* neither.  Each stands for a run of characters without a comma and without
\* whitespace.  The two URLs of node i1 differ in the TCP port only.
EnrTexts == {"enr:r1", "enr:r2"}

EnodeTexts ==
    {"enode://i1@10.0.0.1:30303?discport=30301",
     "enode://i1@10.0.0.1:30304?discport=30301",
     "enode://i2@[::1]:30303?discport=30301"}

InputChars == EnrTexts \cup EnodeTexts \cup {"junk", ",", " "}

InputStrings == UNION { [1..n -> InputChars] : n \in 0..MaxInputLen }

\* str::split(&[',']): the pieces between the commas, one more than there are
\* commas; the empty string gives one empty piece.
RECURSIVE Split(_)
Split(str) ==
    IF \A i \in 1..Len(str) : str[i] # ","
    THEN <<str>>
    ELSE LET i == CHOOSE k \in 1..Len(str) :
                     str[k] = "," /\ \A j \in 1..(k - 1) : str[j] # ","
         IN <<SubSeq(str, 1, i - 1)>> \o Split(SubSeq(str, i + 1, Len(str)))

\* str::trim(): without the whitespace at both ends.
RECURSIVE TrimStart(_)
TrimStart(str) ==
    IF str # <<>> /\ Head(str) = " " THEN TrimStart(Tail(str)) ELSE str

RECURSIVE TrimEnd(_)
TrimEnd(str) ==
    IF str # <<>> /\ str[Len(str)] = " "
    THEN TrimEnd(SubSeq(str, 1, Len(str) - 1))
    ELSE str

TrimStartOnly(str) == TrimStart(str)

Trim(str) == TrimEnd(TrimStart(str))

\* str::parse::<discv5::Enr>(): Ok(record) for the text of a signed record
\* and nothing else around it.
ParseEnr(str) ==
    IF Len(str) = 1 /\ str[1] \in EnrTexts
    THEN [ok |-> TRUE, node |-> str[1]]
    ELSE [ok |-> FALSE]

\* NodeRecord::from_str: address, tcp port, udp port (discport) and id of an
\* enode URL.
NodeRecordFromStr(text) ==
    CASE text = "enode://i1@10.0.0.1:30303?discport=30301" ->
            [address |-> [v |-> "V4", ip |-> "10.0.0.1"], tcp_port |-> 30303,
             udp_port |-> 30301, id |-> "i1"]
      [] text = "enode://i1@10.0.0.1:30304?discport=30301" ->
            [address |-> [v |-> "V4", ip |-> "10.0.0.1"], tcp_port |-> 30304,
             udp_port |-> 30301, id |-> "i1"]
      [] text = "enode://i2@[::1]:30303?discport=30301" ->
            [address |-> [v |-> "V6", ip |-> "::1"], tcp_port |-> 30303,
             udp_port |-> 30301, id |-> "i2"]

\* str::parse::<AnyNode>(): a node record for an enode URL, a signed record
\* for text that starts with enr:, Err for anything else; the text is taken
\* as it is.
ParseAnyNode(str) ==
    IF Len(str) = 1 /\ str[1] \in EnodeTexts
    THEN [ok |-> TRUE, kind |-> "NodeRecord", record |-> NodeRecordFromStr(str[1])]
    ELSE IF Len(str) = 1 /\ str[1] \in EnrTexts
         THEN [ok |-> TRUE, kind |-> "Enr", node |-> str[1]]
         ELSE [ok |-> FALSE]

\* Multiaddr::to_string of Ip4(ip) or Ip6(ip), Udp(udp_port), P2p(id), with
\* the id uncompressed_to_multiaddr_id gives.
MultiAddress(record) ==
    <<(IF record.address.v = "V4" THEN "/ip4/" ELSE "/ip6/"), record.address.ip,
      "/udp/", record.udp_port, "/p2p/", record.id>>

BootNodeEnr(node) == [kind |-> "Enr", node |-> node]

BootNodeEnode(multi_address) == [kind |-> "Enode", node |-> multi_address]

\* The loop of add_serialized_boot_nodes over the pieces of the input.
RECURSIVE InsertSerialized(_, _)
InsertSerialized(nodes, records) ==
    IF records = <<>> THEN nodes
    ELSE LET res == ParseEnr(Trim(Head(records)))
         IN InsertSerialized(
                (IF res.ok THEN nodes \cup {BootNodeEnr(res.node)} ELSE nodes),
                Tail(records))

\* The loop of add_enode_boot_nodes over the pieces of the input.
RECURSIVE InsertEnodes(_, _)
InsertEnodes(nodes, enodes) ==
    IF enodes = <<>> THEN nodes
    ELSE LET res == ParseAnyNode(Head(enodes))
         IN InsertEnodes(
                (IF res.ok /\ res.kind = "NodeRecord"
                 THEN nodes \cup {BootNodeEnode(MultiAddress(res.record))}
                 ELSE nodes),
                Tail(enodes))

\* DiscV5ConfigBuilder::add_serialized_boot_nodes(enrs)
AddSerializedBootNodes ==
    /\ boot_called = ""
    /\ bootstrap_nodes' = InsertSerialized(bootstrap_nodes, Split(boot_input))
    /\ boot_called' = "add_serialized_boot_nodes"
    /\ UNCHANGED boot_input
    /\ UNCHANGED <<executor_vars, discovery_vars, start_vars, downgrade_vars,
                   poll_vars>>

\* DiscV5ConfigBuilder::add_enode_boot_nodes(enodes)
AddEnodeBootNodes ==
    /\ boot_called = ""
    /\ bootstrap_nodes' = InsertEnodes(bootstrap_nodes, Split(boot_input))
    /\ boot_called' = "add_enode_boot_nodes"
    /\ UNCHANGED boot_input
    /\ UNCHANGED <<executor_vars, discovery_vars, start_vars, downgrade_vars,
                   poll_vars>>

\* The boot nodes a builder can hold: add_boot_nodes takes any records, and
\* the parsers add what they make of their input.
BuilderBootNodes ==
    { BootNodeEnr(text) : text \in EnrTexts }
        \cup { BootNodeEnode(MultiAddress(NodeRecordFromStr(text))) :
                 text \in EnodeTexts }

\* A builder holding any boot nodes, and any string about to be parsed.
InitConfig ==
    /\ bootstrap_nodes \in SUBSET BuilderBootNodes
    /\ boot_input \in InputStrings
    /\ boot_called = ""
    /\ InitDowngrade
    /\ InitPoll
    /\ InitDiscV5(DefaultConfig)
    /\ InitDiscovery
    /\ InitExecutor
    /\ chain_spec.dao = 1
    /\ budget = [calls |-> 0, blocks |-> "single"]

NextConfig ==
    \/ AddSerializedBootNodes
    \/ AddEnodeBootNodes

SpecConfig == InitConfig /\ [][NextConfig]_vars


\* ============================================ start with discv4 downgrade
\* The ports a caller configures (0: any free port) and the ports the
\* operating system hands out for port 0.
ConfiguredPorts == {0, 30303, 30304}

EphemeralPorts == {49152, 49153}

\* discv4_addr: SocketAddr
SocketAddrs ==
    { [ip |-> ip, port |-> port] : ip \in {"127.0.0.1", "::1"},
                                   port \in ConfiguredPorts }

\* The listen configurations of discv5 over the same addresses.
DowngradeListenConfigs ==
    { [mode |-> m, ipv4 |-> "127.0.0.1", ipv4_port |-> p4, ipv6 |-> "::1",
       ipv6_port |-> p6] :
        m \in {"Ipv4", "Ipv6", "DualStack"}, p4 \in ConfiguredPorts,
        p6 \in ConfiguredPorts }

\* The sockets a listen configuration names.
ListenSockets(listen_config) ==
    (IF listen_config.mode \in {"Ipv4", "DualStack"}
     THEN {[ip |-> listen_config.ipv4, port |-> listen_config.ipv4_port]}
     ELSE {})
    \cup
    (IF listen_config.mode \in {"Ipv6", "DualStack"}
     THEN {[ip |-> listen_config.ipv6, port |-> listen_config.ipv6_port]}
     ELSE {})

\* UdpSocket::bind(addr) while the sockets in bound are open: port 0 gets a
\* free port of the system's choice, a port that is taken fails with
\* AddrInUse.
BindUdp(addr, bound) ==
    IF addr.port = 0
    THEN { [ok |-> TRUE, socket |-> [ip |-> addr.ip, port |-> p]] :
             p \in { q \in EphemeralPorts : [ip |-> addr.ip, port |-> q] \notin bound } }
    ELSE IF addr \in bound
         THEN {[ok |-> FALSE, socket |-> addr]}
         ELSE {[ok |-> TRUE, socket |-> addr]}

\* start_discv5(&sk, discv5_config) returning Ok: discv5 listens on a socket
\* bound for each socket of its listen configuration.
StartDiscv5Sockets(listen_config) ==
    { sockets \in SUBSET { r.socket : r \in UNION { BindUdp(addr, {}) :
                                        addr \in ListenSockets(listen_config) } } :
        /\ Cardinality(sockets) = Cardinality(ListenSockets(listen_config))
        /\ \A addr \in ListenSockets(listen_config) :
              \E socket \in sockets :
                 [ok |-> TRUE, socket |-> socket] \in BindUdp(addr, {}) }

DowngradeErr(err) ==
    [kind |-> "Err", err |-> err, disc |-> "None", discv5_sockets |-> {},
     discv4_socket |-> NoneOpt]

\* new_with_dns_resolver(dns_config)?, then Ok(Discovery { .. })
SetupDns(dns_discovery_config, disc, discv5_sockets, discv4_socket) ==
    IF dns_discovery_config = Some("no resolver")
    THEN DowngradeErr("DnsResolver")
    ELSE [kind |-> "Ok", err |-> "", disc |-> disc,
          discv5_sockets |-> discv5_sockets, discv4_socket |-> discv4_socket]

\* Discovery::start_discv5_with_v4_downgrade: with both configurations discv5
\* is started, then discv4 is bound on discv4_addr as secondary node; the two
\* addresses are not compared (line 47: "todo: verify not same socket discv4
\* and 5").  With any other pair of configurations no discovery is started.
StartDiscv5WithV4Downgrade ==
    /\ IsNone(downgrade_ret)
    /\ LET args == downgrade_args
       IN IF args.discv4_config /\ IsSome(args.discv5_config)
          THEN \/ downgrade_ret' = Some(DowngradeErr("start_discv5"))
               \/ \E discv5_sockets \in StartDiscv5Sockets(Unwrap(args.discv5_config)) :
                     \E discv4 \in BindUdp(args.discv4_addr, discv5_sockets) :
                        downgrade_ret' =
                           Some(IF ~discv4.ok
                                THEN DowngradeErr("Discovery(discv4_addr)")
                                ELSE SetupDns(args.dns_discovery_config, "Some",
                                              discv5_sockets, Some(discv4.socket)))
          ELSE downgrade_ret' =
                  Some(SetupDns(args.dns_discovery_config, "None", {}, NoneOpt))
    /\ UNCHANGED downgrade_args
    /\ UNCHANGED <<executor_vars, discovery_vars, start_vars, builder_vars,
                   poll_vars>>

\* Any arguments of a call not yet made.
InitDowngradeArgs ==
    /\ downgrade_args \in
          [discv4_addr : SocketAddrs,
           discv4_config : BOOLEAN,
           discv5_config : {NoneOpt} \cup { Some(l) : l \in DowngradeListenConfigs },
           dns_discovery_config : {NoneOpt, Some("resolver"), Some("no resolver")}]
    /\ downgrade_ret = NoneOpt
    /\ InitBuilder
    /\ InitPoll
    /\ InitDiscV5(DefaultConfig)
    /\ InitDiscovery
    /\ InitExecutor
    /\ chain_spec.dao = 1
    /\ budget = [calls |-> 0, blocks |-> "single"]

NextDowngrade == StartDiscv5WithV4Downgrade

SpecDowngrade == InitDowngradeArgs /\ [][NextDowngrade]_vars


\* ================================================= Discovery as a stream
\* updates that arrive during a run
MaxUpdates == 3
\* events the processing of one update puts into queued_events
MaxQueued == 2

\* DiscoveryUpdateV5::V4 / V5 of the merged stream, and DNS updates.
UpdateSources == {"V4", "V5", "Dns"}

\* on_discv4_update, on_discv5_update and on_node_record_update push the
\* events of an update to the back of queued_events: none for a node that
\* is known already, one or more for a new one.
OnUpdate(queue, update) ==
    queue \o [i \in 1..update.events |-> [update |-> update.no, event |-> i]]

RECURSIVE OnUpdates(_, _)
OnUpdates(queue, updates) ==
    IF updates = <<>> THEN queue
    ELSE OnUpdates(OnUpdate(queue, Head(updates)), Tail(updates))

\* discv4, discv5 or DNS discovery has an update ready; a stream that holds
\* the task's waker wakes the task.
UpdateArrives(source, events) ==
    /\ arrived < MaxUpdates
    /\ arrived' = arrived + 1
    /\ ready_updates' =
          Append(ready_updates,
                 [source |-> source, no |-> arrived + 1, events |-> events])
    /\ woken' = (woken \/ waker_registered)
    /\ waker_registered' = FALSE
    /\ UNCHANGED <<queued_events, stream_yielded>>
    /\ UNCHANGED <<executor_vars, discovery_vars, start_vars, builder_vars,
                   downgrade_vars>>

\* if self.queued_events.is_empty() { cx.waker().wake_by_ref(); }
WakeByRef(queue) == queue = <<>>

\* The task, woken, polls the stream.  Discovery::poll_next: the event at
\* the front of queued_events is returned in Ready(Some(event)), and the
\* consumer polls again for the next one.  With an empty queue the update
\* streams are polled until they are pending, which leaves the task's waker
\* with them, every update is processed, the waker is called if
\* queued_events is empty, and Pending is returned.
PollNext ==
    /\ woken
    /\ IF queued_events # <<>>
       THEN /\ queued_events' = Tail(queued_events)
            /\ stream_yielded' = Append(stream_yielded, Head(queued_events))
            /\ woken' = TRUE
            /\ UNCHANGED <<ready_updates, waker_registered>>
       ELSE /\ queued_events' = OnUpdates(queued_events, ready_updates)
            /\ ready_updates' = <<>>
            /\ waker_registered' = TRUE
            /\ woken' = WakeByRef(queued_events')
            /\ UNCHANGED stream_yielded
    /\ UNCHANGED arrived
    /\ UNCHANGED <<executor_vars, discovery_vars, start_vars, builder_vars,
                   downgrade_vars>>

InitPollNext ==
    /\ InitPoll
    /\ InitBuilder
    /\ InitDowngrade
    /\ InitDiscV5(DefaultConfig)
    /\ InitDiscovery
    /\ InitExecutor
    /\ chain_spec.dao = 1
    /\ budget = [calls |-> 0, blocks |-> "single"]

NextPollNext ==
    \/ \E source \in UpdateSources, events \in 0..MaxQueued :
          UpdateArrives(source, events)
    \/ PollNext

SpecPollNext == InitPollNext /\ [][NextPollNext]_vars

\* The executor polls a task that has been woken.
SpecPollNextLive == SpecPollNext /\ WF_vars(PollNext)

\* =================================================================== claims
\* Position (from 1) in body of the transaction with hash h.
BodyIndex(body, h) == CHOOSE i \in 1..Len(body) : body[i].hash = h

\* The buffered diffs sts, ordered by the body position of the transaction
\* that produced each.
AscendingByTx(body, sts) ==
    SortByIdx([i \in 1..Len(sts) |->
                 [sts[i] EXCEPT !.idx = BodyIndex(body, sts[i].of) - 1]])

InBatch == pc \in {"spawn", "job", "collect"}

\* The state the first batch of the call starts from: the state at entry with
\* the diff of the pre-block beacon root call.
PreBatchState ==
    Commit(pre_state, ExecuteBeaconRootContractCall(chain_spec, block).diff)

\* Sequential execution of body from transaction i on, starting in state s:
\* transaction i reads the state left by the transactions before it.
RECURSIVE SeqFrom(_, _, _, _)
SeqFrom(s, body, i, acc) ==
    IF i > Len(body)
    THEN [ok |-> TRUE, state |-> s, results |-> acc, hash |-> ""]
    ELSE LET r == Transact(s, body[i])
         IN IF ~r.ok
            THEN [ok |-> FALSE, state |-> s, results |-> acc,
                  hash |-> body[i].hash]
            ELSE SeqFrom(ApplyDiff(s, r), body, i + 1,
                         Append(acc, ResultsEntry(i - 1, r)))

Sequential == SeqFrom(PreBatchState, block.body, 1, <<>>)

\* The state after the first k batches of the queue q have been executed one
\* after another from state s, each against the state the previous one left.
RECURSIVE AfterBatches(_, _, _, _)
AfterBatches(s, body, q, k) ==
    IF k = 0 THEN s
    ELSE LET s0 == AfterBatches(s, body, q, k - 1)
             diffs == [i \in 1..Len(q[k]) |->
                         StatesEntry(q[k][i], Transact(s0, body[q[k][i] + 1]))]
         IN ApplyAll(s0, AscendingByTx(body, diffs))

Returned(k) == pc = "idle" /\ IsSome(ret) /\ Unwrap(ret).kind = k

C2_NoMutationWhileBatchRuns ==
    [][/\ pc = "job" => state' = state
       /\ (InBatch /\ state' # state) =>
             /\ pc = "collect" /\ fut_batch = <<>> /\ job = NoneOpt
             /\ Len(states) = Len(batch)
             /\ commits' = commits + 1
       /\ (InBatch /\ commits' = commits) => state' = state
       /\ pc' \in {"spawn", "job", "collect"} =>
             /\ state' = batch_start'
             /\ \A i \in 1..Len(fut_batch') :
                  fut_batch'[i].result =
                     Transact(batch_start',
                              block'.body[fut_batch'[i].tx_idx + 1])]_vars

\* the second job of a batch is in flight and reads an account for which the
\* first job of the batch has returned a diff with another value
C2_Witness ==
    /\ pc = "job"
    /\ Len(fut_batch) = 1
    /\ fut_batch[1].result.ok
    /\ fut_batch[1].result.w = block.body[Unwrap(job).tx_idx + 1].r
    /\ fut_batch[1].result.val # state[fut_batch[1].result.w]

\* C3: the batches of a block run strictly one after another in queue order:
\* while batch k runs exactly the k-1 batches before it have been committed,
\* the diff of the pre-block beacon root call is in the state before the first
\* job starts, and every job reads the state left by all earlier batches.
C3_BatchesSequential ==
    InBatch =>
       /\ commits = batch_no - 1
       /\ batch = block_queue[batch_no]
       /\ batch_start =
            AfterBatches(PreBatchState, block.body, block_queue, batch_no - 1)
       /\ state = batch_start
       /\ beacon_diff => state["c"] = Unwrap(block.parent_beacon_block_root)
       /\ \A i \in 1..Len(fut_batch) :
            fut_batch[i].result =
               Transact(AfterBatches(PreBatchState, block.body, block_queue,
                                     batch_no - 1),
                        block.body[fut_batch[i].tx_idx + 1])

\* a job of the second batch is in flight in a block whose pre-block call and
\* first batch both changed the state
C3_Witness ==
    /\ pc = "job"
    /\ batch_no = 2
    /\ beacon_diff
    /\ pre_state["c"] # state["c"]
    /\ \E a \in {"a", "b"} : pre_state[a] # state[a]

\* Two transactions conflict when one writes an account the other reads or
\* writes.
Conflict(t, u) == t.w \in {u.r, u.w} \/ u.w \in {t.r, t.w}

\* The indices listed by the queue q, in queue order.
RECURSIVE Flatten(_)
Flatten(q) == IF q = <<>> THEN <<>> ELSE Head(q) \o Flatten(Tail(q))

\* The schedule invariants of a stored queue q for body: every index of the
\* body is listed exactly once, the transactions of a batch are pairwise
\* conflict-free, and every index of a batch is below every index of the
\* batches after it.
ScheduleOk(q, body) ==
    /\ Len(Flatten(q)) = Len(body)
    /\ \A i \in 0..(Len(body) - 1) : \E p \in 1..Len(Flatten(q)) : Flatten(q)[p] = i
    /\ \A k \in 1..Len(q) : \A i, j \in 1..Len(q[k]) :
          i # j => ~Conflict(body[q[k][i] + 1], body[q[k][j] + 1])
    /\ \A k, l \in 1..Len(q) : \A i \in 1..Len(q[k]), j \in 1..Len(q[l]) :
          k < l => q[k][i] < q[l][j]

\* The account values after the post-block state change, without database
\* failure, of the state s.
PostState(s) == ApplyPostExecutionStateChange(s, chain_spec, block, "none").state

\* C4: with a stored queue that satisfies the schedule invariants a call that
\* returns Ok leaves the post-state and returns the receipts of the sequential
\* execution of the body.
C4_QueueEquivalentToSequential ==
    (Returned("Ok") /\ IsSome(stored) /\ ScheduleOk(Unwrap(stored), block.body)) =>
       /\ Sequential.ok
       /\ state = PostState(Sequential.state)
       /\ inner_receipts = Some(BuildReceipts(block.body, Sequential.results))

\* a call with a stored queue holding two conflict-free transactions in one
\* batch, listed in descending order, has returned Ok
C4_Witness ==
    /\ Returned("Ok")
    /\ IsSome(stored)
    /\ ScheduleOk(Unwrap(stored), block.body)
    /\ Unwrap(stored) = << <<1, 0>> >>
    /\ state # pre_state

\* The queue of one singleton batch per transaction, in body order.
Singletons(body) == [i \in 1..Len(body) |-> <<i - 1>>]

\* C5: without a stored queue the call uses one singleton batch per
\* transaction in body order, and the state after the body, the receipts, the
\* cumulative gas used and the failing transaction are those of the sequential
\* execution in which transaction i reads the state left by 0..i-1.
C5_SequentialFallback ==
    (IsNone(stored) /\ block.body # <<>>) =>
       /\ (InBatch \/ pc = "finish") => block_queue = Singletons(block.body)
       /\ pc = "finish" =>
            /\ Sequential.ok
            /\ state = Sequential.state
            /\ results = Sequential.results
       /\ Returned("Ok") =>
            /\ Sequential.ok
            /\ state = PostState(Sequential.state)
            /\ inner_receipts = Some(BuildReceipts(block.body, Sequential.results))
            /\ block.gas_used = SumGas(Sequential.results)
       /\ Returned("BlockGasUsed") =>
            /\ Sequential.ok
            /\ state = Sequential.state
            /\ Unwrap(ret).got = SumGas(Sequential.results)
       /\ Returned("EVM") =>
            /\ ~Sequential.ok
            /\ state = Sequential.state
            /\ Unwrap(ret).hash = Sequential.hash

\* a call without a stored queue has returned Ok for a body whose second
\* transaction read what the first one wrote
C5_Witness ==
    /\ Returned("Ok")
    /\ IsNone(stored)
    /\ Len(block.body) = 2
    /\ block.body[2].r = block.body[1].w
    /\ block_queue = << <<0>>, <<1>> >>

\* C6 (as claimed): when a call returns Ok the gas used by the transactions
\* of the block sums to block.gas_used, and when the sum over the whole body
\* differs from block.gas_used the call fails with BlockGasUsed.
C6_GasTotality ==
    /\ Returned("Ok") => SumGas(results) = block.gas_used
    /\ (pc = "idle" /\ IsSome(ret) /\ Len(results) = Len(block.body)
          /\ SumGas(results) # block.gas_used)
         => Unwrap(ret).kind \in {"BlockGasUsed", "MissingParentBeaconBlockRoot"}

\* The transactions of the batch b that the EVM rejects in state s, in the
\* order the batch lists them.
FailingOf(b, body, s) ==
    SelectSeq(b, LAMBDA i : ~Transact(s, body[i + 1]).ok)

\* The indices listed by the first k batches of q.
ListedUpTo(q, k) == UNION { { q[n][i] : i \in 1..Len(q[n]) } : n \in 1..k }

\* C7: when a transaction of a batch fails in the EVM the call returns
\* Validation(EVM) with the hash of the first failing transaction in the
\* batch's listing order, the block is aborted (nothing merged, no receipts
\* saved) and no transaction of a later batch has been submitted.
C7_EvmFailureAborts ==
    /\ (pc = "collect" /\ FailingOf(batch, block.body, batch_start) # <<>>) =>
          \A i \in 1..Len(fut_batch) : fut_batch[i].tx_idx \in
              { batch[p] : p \in 1..Len(batch) }
    /\ Returned("EVM") =>
          /\ FailingOf(batch, block.body, batch_start) # <<>>
          /\ Unwrap(ret).hash =
               block.body[Head(FailingOf(batch, block.body, batch_start)) + 1].hash
          /\ started = ListedUpTo(block_queue, batch_no)
          /\ ~merged
          /\ inner_receipts = NoneOpt
          /\ state = batch_start

\* a call has returned the EVM error of a batch in which both transactions
\* fail, the batch listing index 1 before index 0
C7_Witness ==
    /\ Returned("EVM")
    /\ batch = <<1, 0>>
    /\ Len(FailingOf(batch, block.body, batch_start)) = 2
    /\ Unwrap(ret).hash = block.body[2].hash

\* C8 (as claimed): a call that returns a block-level validation error has
\* not performed merge_transitions.
C8_ErrorMeansNotMerged ==
    (pc = "idle" /\ IsSome(ret) /\ Unwrap(ret).kind # "Ok") => ~merged

\* C8 (amended): a call that returns an EVM failure, BlockGasUsed,
\* IncrementBalanceFailed or a missing beacon root has not performed
\* merge_transitions; a call that returns a receipt root mismatch has performed
\* it exactly when the body is not empty, and has saved no receipts.
C8_ErrorMergedOnlyOnRootMismatch ==
    /\ (\E k \in {"EVM", "BlockGasUsed", "IncrementBalanceFailed",
                  "MissingParentBeaconBlockRoot"} : Returned(k)) =>
          /\ ~merged
          /\ bundle_state = 0
    /\ Returned("ReceiptRootMismatch") =>
          /\ merged <=> block.body # <<>>
          /\ receipts = <<>>

\* a call has returned BlockGasUsed with transitions pending
C8_Witness ==
    /\ Returned("BlockGasUsed")
    /\ transition_state > 0
    /\ ~merged

\* The block numbers ns are consecutive.
Consecutive(ns) == \A i \in 1..(Len(ns) - 1) : ns[i + 1] = ns[i] + 1

\* C9 (as claimed): after consecutively numbered blocks have all been
\* executed successfully on a fresh executor, with no take_output_state in
\* between, whenever first_block is set the number of accumulated receipt
\* lists is current_block - first_block + 1.
C9_ReceiptsLenInvariant ==
    (/\ IsSome(first_block)
     /\ ok_blocks # <<>>
     /\ Consecutive(ok_blocks)
     /\ ~err_seen
     /\ ~taken) =>
        Len(receipts) = ok_blocks[Len(ok_blocks)] - Unwrap(first_block) + 1

\* C10 (as claimed): first_block is unset as long as no call has returned Ok,
\* and once a call has returned Ok it is the number of the first block whose
\* call returned Ok.
C10_FirstBlockSetByFirstOk ==
    /\ ok_blocks = <<>> => IsNone(first_block)
    /\ ok_blocks # <<>> => first_block = Some(ok_blocks[1])

\* C11: once first_block is set, no step of any operation (execute or
\* execute_and_verify_receipt of any block, successful or failed, with its
\* save_receipts, take_output_state, set_tip, set_prune_modes) moves it to a
\* smaller block number or unsets it.
C11_FirstBlockNeverDecreases ==
    [][IsSome(first_block) =>
          /\ IsSome(first_block')
          /\ Unwrap(first_block') >= Unwrap(first_block)]_vars

\* A block numbered below first_block has been executed successfully after
\* the block that set first_block.
C11_Witness ==
    /\ pc = "idle"
    /\ Len(ok_blocks) = 2
    /\ ok_blocks[2] < ok_blocks[1]
    /\ first_block = Some(ok_blocks[1])

C13_BlockGasUsedFields ==
    (pc = "idle" /\ calls = 1 /\ Len(results) = Len(block.body)) =>
        /\ Returned("BlockGasUsed") =>
              /\ Unwrap(ret).got = SumGas(results)
              /\ Unwrap(ret).expected = block.gas_used
              /\ Unwrap(ret).got # Unwrap(ret).expected
        /\ (/\ block.body # <<>>
            /\ Unwrap(ret).kind \notin {"EVM", "MissingParentBeaconBlockRoot"}
            /\ SumGas(results) # block.gas_used) =>
              ret = Some(RetGas(SumGas(results), block.gas_used))

\* The header of a two-transaction block understates the gas used by two.
C13_Witness ==
    /\ Returned("BlockGasUsed")
    /\ Len(block.body) = 2
    /\ SumGas(results) = 4
    /\ Unwrap(ret).got = Unwrap(ret).expected + 2

\* The queue q lists every index of the body exactly once.
Covers(q, body) ==
    /\ Len(Flatten(q)) = Len(body)
    /\ \A i \in 0..(Len(body) - 1) : \E p \in 1..Len(Flatten(q)) : Flatten(q)[p] = i

\* The gas used by transaction i according to the collected results rs, and
\* the gas used by transactions 0..i.
GasOfIdx(rs, i) == rs[CHOOSE k \in 1..Len(rs) : rs[k].idx = i].gas_used

RECURSIVE GasUpTo(_, _)
GasUpTo(rs, i) == IF i < 0 THEN 0 ELSE GasOfIdx(rs, i) + GasUpTo(rs, i - 1)

\* C14: when a call with a queue that lists every body index exactly once
\* succeeds, execute_inner's receipt list has one receipt per transaction, in
\* body order (receipt i carries the type and the logs of transaction i), and
\* receipt i's cumulative_gas_used is the gas used by transactions 0..i,
\* however the queue groups and orders the indices.
C14_ReceiptsInBodyOrder ==
    (Returned("Ok") /\ calls = 1 /\ Covers(block_queue, block.body)) =>
        /\ IsSome(inner_receipts)
        /\ Len(Unwrap(inner_receipts)) = Len(block.body)
        /\ \A i \in 1..Len(block.body) :
              LET r == Unwrap(inner_receipts)[i]
              IN /\ r.tx_type = block.body[i].tx_type
                 /\ r.logs = block.body[i].hash
                 /\ r.cumulative_gas_used = GasUpTo(results, i - 1)

\* A successful call whose queue lists the two indices against body order, so
\* the results were collected out of order.
C14_Witness ==
    /\ Returned("Ok")
    /\ Len(block.body) = 2
    /\ Covers(block_queue, block.body)
    /\ Flatten(block_queue) = <<1, 0>>
    /\ results[1].idx = 1
    /\ Unwrap(inner_receipts)[2].cumulative_gas_used >= 3

\* C15 (as claimed): the jobs of a batch are submitted without waiting for
\* the previously submitted job of the batch to finish: while a job is in
\* flight and the batch lists a further index, the submission of the next job
\* is enabled (so two jobs of the batch can be in flight at the same time).
C15_JobsSubmittedWithoutWaiting ==
    (pc = "job" /\ IsSome(job) /\ pos < Len(batch)) => ENABLED Spawn

\* C16: after execute_inner has returned its receipts to
\* execute_and_verify_receipt, the receipts are checked against the header's
\* root exactly when Byzantium is active at the block number: with Byzantium
\* active a mismatch returns ReceiptRootMismatch and saves nothing, a match
\* saves the receipts; with Byzantium not active the receipts are saved
\* whatever the header's root is.
C16_VerifyIffByzantium ==
    (/\ pc = "idle" /\ calls = 1
     /\ entry = "execute_and_verify_receipt"
     /\ IsSome(inner_receipts)) =>
        LET r == Unwrap(inner_receipts)
            matches == Unwrap(header_root) = ReceiptsRoot(r)
            byzantium == chain_spec.byzantium <= block.number
        IN IF byzantium /\ ~matches
           THEN Returned("ReceiptRootMismatch") /\ receipts = <<>>
           ELSE Returned("Ok") /\ receipts = <<r>>

\* Before Byzantium, receipts that do not match the header's root are saved.
C16_Witness ==
    /\ Returned("Ok")
    /\ entry = "execute_and_verify_receipt"
    /\ chain_spec.byzantium > block.number
    /\ header_root = Some(BadRoot)
    /\ Len(receipts) = 1
    /\ receipts[1] # <<>>

\* The sum of the balances the accounts accts hold in s.
RECURSIVE TotalOf(_, _)
TotalOf(s, accts) ==
    IF accts = {} THEN 0
    ELSE LET a == CHOOSE x \in accts : TRUE
         IN s[a] + TotalOf(s, accts \ {a})

\* C17: when a call with a non-empty body succeeds at the DAO transition
\* block, every DAO account is empty and the DAO beneficiary has gained
\* exactly the sum of the balances they held (it receives no reward of its
\* own here), so the total is conserved; at every other block number the DAO
\* accounts and the beneficiary keep their balances throughout the call.
C17_DaoDrainConserved ==
    (calls = 1) =>
        LET dao == chain_spec.dao = block.number
            r == DaoHardforkBeneficiary
            held == TotalOf(pre_state, DaoHardforkAccounts)
        IN /\ ~dao => /\ \A a \in DaoHardforkAccounts : state[a] = pre_state[a]
                      /\ state[r] = pre_state[r]
           /\ (dao /\ Returned("Ok") /\ block.body # <<>>) =>
                 /\ \A a \in DaoHardforkAccounts : state[a] = 0
                 /\ state[r] = (pre_state[r] + held) % ValMod
                 /\ held > 0

\* A block at the DAO transition has been executed: the DAO accounts are
\* empty and the beneficiary holds what they held.
C17_Witness ==
    /\ Returned("Ok")
    /\ block.body # <<>>
    /\ chain_spec.dao = block.number
    /\ state["d"] = 0 /\ state["e"] = 0
    /\ state["r"] = 2

\* A notification of a change of discv5's kbuckets is on its way to discv4:
\* it is unseen on the watch channel, or an event that makes the merged stream
\* send it is still to be polled.
ChangeOnItsWay ==
    \/ discv5_kbuckets_change
    \/ \E i \in 1..Len(discv5_updates) :
          discv5_updates[i].kind \in
              {"NodeInserted", "SessionEstablished", "NodeRemoved"}

\* C18 (as claimed): at all times, unless a notification of a change of
\* discv5's kbuckets is on its way to discv4, the mirror table of discv4
\* holds no peer id of an entry of discv5's kbuckets.
C18_MirrorExclusive ==
    (discv4_table \cap { PeerIdOf(enr.pk) : enr \in kbuckets } # {}) =>
        ChangeOnItsWay

\* The updates that have left the merged stream, in order.
LeftMergedStream ==
    yielded \o (IF IsSome(disc_update) THEN <<Unwrap(disc_update)>> ELSE <<>>)

\* The updates of seq that carry the tag, untagged.
Untagged(seq, tag) ==
    LET part == SelectSeq(seq, LAMBDA u : u.tag = tag)
    IN [i \in 1..Len(part) |-> part[i].update]

\* C19: for every event of discv5 that implies a mutation of the kbuckets
\* (NodeInserted, SessionEstablished, removal), the notification has been sent
\* on the watch channel by the time the merged stream hands V5(event) to its
\* consumer: the notifications sent are as many as such events handed over,
\* and the last of them is unseen or discv4 has run on it.
C19_NotifiedBeforeYielded ==
    LET out == Untagged(LeftMergedStream, "V5")
        mutations == SelectSeq(out, LAMBDA e :
                        e.kind \in {"NodeInserted", "SessionEstablished",
                                    "NodeRemoved"})
    IN /\ Len(mutations) = ticks_sent
       /\ (ticks_sent = 0) => ~discv5_kbuckets_change

\* V5(SessionEstablished) has been yielded, and discv4, run by the
\* notification sent for it, has evicted the peer from its mirror.
C19_Witness ==
    /\ \E i \in 1..Len(yielded) :
          /\ yielded[i].tag = "V5"
          /\ yielded[i].update.kind = "SessionEstablished"
    /\ \E j \in 1..Len(v4_emitted) : v4_emitted[j].kind = "Removed"
    /\ ticks_sent = 1
    /\ ~discv5_kbuckets_change

\* C20: the merged stream keeps the order of each protocol and loses or
\* repeats nothing: the V5 updates that have left it, followed by the events
\* still to be polled, are exactly the events discv5 emitted, in order; the
\* same holds for V4 and discv4; every update carries the tag of its source.
C20_MergedOrderPreserved ==
    /\ Untagged(LeftMergedStream, "V5") \o discv5_updates = v5_emitted
    /\ Untagged(LeftMergedStream, "V4") \o discv4_updates = v4_emitted
    /\ \A i \in 1..Len(LeftMergedStream) :
          LET u == LeftMergedStream[i]
          IN /\ u.tag \in {"V5", "V4"}
             /\ u.tag = "V5" <=> u.update.kind \in V5EventKinds

\* Two events of discv5 and two updates of discv4 have all been yielded, the
\* first update of discv4 before the first event of discv5 although it was
\* emitted after it.
C20_Witness ==
    /\ Len(yielded) = 4
    /\ discv5_updates = <<>> /\ discv4_updates = <<>>
    /\ Len(v5_emitted) = 2 /\ Len(v4_emitted) = 2
    /\ yielded[1].tag = "V4"
    /\ yielded[2].tag = "V5"
    /\ yielded[3].tag = "V5"

\* The peer of enr is in the mirror of discv4 and in the kbuckets of discv5,
\* and the SessionEstablished event of its session is on its way to the
\* merged stream.
MirroredPeerInV5(enr) ==
    /\ PeerIdOf(enr.pk) \in discv4_table
    /\ enr \in kbuckets
    /\ \E i \in 1..Len(discv5_updates) :
          /\ discv5_updates[i].kind = "SessionEstablished"
          /\ discv5_updates[i].node = enr.node_id

YieldedV4Removed(peer_id) ==
    \E i \in 1..Len(yielded) :
       /\ yielded[i].tag = "V4"
       /\ yielded[i].update.kind = "Removed"
       /\ yielded[i].update.id = peer_id

StepRank(step) ==
    CASE step = "BuildEnr" -> 1
      [] step = "CreateKademlia" -> 2
      [] step = "Start" -> 3
      [] step = "EventStream" -> 4
      [] step \in {"AddEnr", "SpawnRequestEnr"} -> 5
      [] step = "JoinAll" -> 6
      [] step = "SpawnSelfLookup" -> 7
      [] step = "Running" -> 8

StartOk == IsSome(start_ret) /\ Unwrap(start_ret).kind = "Ok"

StartReturnedErr == IsSome(start_ret) /\ Unwrap(start_ret).kind # "Ok"

\* start has ended, by a return or by a panic.
StartEnded == start_pc \in {"returned", "panicked"}

\* C22 (as claimed): start takes its steps in the order build the local
\* record, create the Kademlia instance, start it, subscribe the event
\* stream, ingest the boot nodes, spawn the self-lookup task; it returns Ok
\* only after all of them; when a step fails it returns an error and the
\* self-lookup task is never spawned.
C22_StartOrder ==
    /\ \A i \in 1..Len(steps) :
          /\ i = 1 => StepRank(steps[i]) = 1
          /\ i > 1 =>
                LET a == StepRank(steps[i - 1])
                    b == StepRank(steps[i])
                IN (a = 5 /\ b = 5) \/ b = a + 1 \/ (a = 4 /\ b = 6)
    /\ StartOk => (steps # <<>> /\ steps[Len(steps)] = "Running")
    /\ (StartEnded /\ ~StartOk) => (StartReturnedErr /\ self_lookup = "none")

\* C23 (as claimed): every request_enr issued for a boot URI has completed,
\* with its failure logged, before the self-lookup task is spawned and before
\* start returns.
C23_BootRequestsDoneBeforeSelfLookup ==
    (self_lookup # "none" \/ StartOk) =>
        \A i \in 1..Len(enr_requests) : enr_requests[i].st # "pending"

\* The boot node the loop of start is at.
BootNodeAt == config.bootstrap_nodes[boot_idx + 1]

SomeRequestLogged ==
    \E i \in 1..Len(enr_requests) : enr_requests[i].st = "logged"

\* C24: a boot record that add_enr refuses makes start return an error; a
\* boot URI whose request fails is only logged: start never fails for it,
\* and the loop goes on with the boot nodes that remain.
C24_BootFailurePolicy ==
    /\ [][(start_pc = "boot_nodes" /\ start_pc' = "boot_nodes" /\
           boot_idx' = boot_idx + 1 /\ BootNodeAt.kind = "Enr")
              => BootNodeAt.node \in boot_enrs']_vars
    /\ [](start_pc = "boot_nodes" /\ boot_idx < Len(config.bootstrap_nodes)
             => ENABLED AddBootNode)
    /\ [](start_pc = "boot_nodes" /\ boot_idx = Len(config.bootstrap_nodes)
             => ENABLED JoinAll)
    /\ [](IsSome(start_ret) /\ Unwrap(start_ret).kind = "Discv5ErrorStr"
             => /\ boot_idx < Len(config.bootstrap_nodes)
                /\ BootNodeAt.kind = "Enr"
                /\ BootNodeAt.node \notin boot_enrs)

\* A request of a first boot URI failed and was logged, the boot node after
\* it was processed all the same, and it was a record that add_enr refused:
\* start returned Discv5ErrorStr.
C24_Witness ==
    /\ Len(config.bootstrap_nodes) = 2
    /\ config.bootstrap_nodes[1].kind = "Enode"
    /\ config.bootstrap_nodes[2].kind = "Enr"
    /\ SomeRequestLogged
    /\ boot_idx = 1
    /\ IsSome(start_ret) /\ Unwrap(start_ret).kind = "Discv5ErrorStr"

\* Queries of the self-lookup task that were issued and have not returned.
LookupsInFlight == lookups - Len(lookup_results)

\* C25: once spawned, the self-lookup task never ends; an iteration issues
\* one find_node_predicate, waits for it, then sleeps; a failed query is
\* traced and the loop goes on; never are two queries in flight, nor one
\* during the sleep.
C25_SelfLookupLoop ==
    /\ [](LookupsInFlight = (IF self_lookup = "lookup" THEN 1 ELSE 0))
    /\ [](self_lookup = "lookup" => ENABLED SelfLookupFinish)
    /\ [](self_lookup = "sleep" => ENABLED SelfLookupWake)
    /\ [](self_lookup = "loop" /\ lookups < MaxLookups
             => ENABLED SelfLookupIssue)
    /\ [][self_lookup # "none" => self_lookup' # "none"]_vars
    /\ [][lookups' # lookups =>
             /\ lookups' = lookups + 1
             /\ self_lookup = "loop" /\ self_lookup' = "lookup"
             /\ (lookups > 0 => LookupsInFlight = 0)]_vars
    /\ [][Len(lookup_results') # Len(lookup_results) =>
             self_lookup' = "sleep"]_vars
    /\ [][(self_lookup = "sleep" /\ self_lookup' # "sleep") =>
             (self_lookup' = "loop" /\ lookups' = lookups)]_vars

\* A first query failed, the task slept, and the second query is in flight.
C25_Witness ==
    /\ lookup_results = <<"Err">>
    /\ lookups = 2
    /\ self_lookup = "lookup"

\* The record of the last call of try_into_reachable has a UDP socket the
\* local ip mode can contact: its own version's, any on DualStack.
Contactable(call) ==
    CASE call.ip_mode = "Ip4" -> IsSome(Udp4Socket(call.enr))
      [] call.ip_mode = "Ip6" -> IsSome(Udp6Socket(call.enr))
      [] call.ip_mode = "DualStack" ->
           IsSome(Udp4Socket(call.enr)) \/ IsSome(Udp6Socket(call.enr))

HasUdpSocket(enr) == IsSome(Udp4Socket(enr)) \/ IsSome(Udp6Socket(enr))

\* C26: try_into_reachable returns UnreachableDiscovery for a record with
\* neither a udp4 nor a udp6 socket, IpVersionMismatchDiscovery for a record
\* with a UDP socket of which none is contactable in the local ip mode, and
\* Ok only for a record with a contactable UDP socket and a TCP port, the
\* result carrying the ip and the port of such a socket of the record.
C26_TryIntoReachableDiscovery ==
    IsSome(reachable) =>
        LET call == Unwrap(reachable)
            enr == call.enr
            res == call.result
        IN /\ ~HasUdpSocket(enr) <=> res.kind = "UnreachableDiscovery"
           /\ (HasUdpSocket(enr) /\ ~Contactable(call))
                 <=> res.kind = "IpVersionMismatchDiscovery"
           /\ res.kind = "Ok" =>
                 /\ Contactable(call)
                 /\ IsSome(enr.tcp4) \/ IsSome(enr.tcp6)
                 /\ LET socket == [ip |-> res.address, port |-> res.udp_port]
                    IN /\ Some(socket) \in {Udp4Socket(enr), Udp6Socket(enr)}
                       /\ call.ip_mode = "Ip4" => Some(socket) = Udp4Socket(enr)
                       /\ call.ip_mode = "Ip6" => Some(socket) = Udp6Socket(enr)

\* A node in mode Ip6 was handed a record with an ipv4 socket only and got
\* IpVersionMismatchDiscovery.
C26_Witness ==
    /\ IsSome(reachable)
    /\ Unwrap(reachable).ip_mode = "Ip6"
    /\ IsSome(Udp4Socket(Unwrap(reachable).enr))
    /\ IsNone(Udp6Socket(Unwrap(reachable).enr))
    /\ Unwrap(reachable).result.kind = "IpVersionMismatchDiscovery"

\* C27 (as claimed): try_into_reachable returns UnreachableMempool for a
\* record with a contactable UDP socket and no TCP port at all.
C27_NoTcpIsUnreachableMempool ==
    (/\ IsSome(reachable)
     /\ Contactable(Unwrap(reachable))
     /\ IsNone(Unwrap(reachable).enr.tcp4)
     /\ IsNone(Unwrap(reachable).enr.tcp6))
        => Unwrap(reachable).result.kind = "UnreachableMempool"

\* C28 (as claimed): the local record start builds advertises the TCP port
\* by the listen mode, tcp4 only on Ipv4, tcp6 only on Ipv6, both on
\* DualStack; its ips and UDP ports are those of the listen configuration.
C28_LocalEnrTcpPorts ==
    IsSome(local_enr) =>
        LET enr == Unwrap(local_enr)
            l == config.listen_config
            port == Some(config.tcp_port)
        IN /\ l.mode = "Ipv4" =>
                /\ enr.tcp4 = port /\ IsNone(enr.tcp6)
                /\ enr.ip4 = Some(l.ipv4) /\ enr.udp4 = Some(l.ipv4_port)
                /\ IsNone(enr.ip6) /\ IsNone(enr.udp6)
           /\ l.mode = "Ipv6" =>
                /\ enr.tcp6 = port /\ IsNone(enr.tcp4)
                /\ enr.ip6 = Some(l.ipv6) /\ enr.udp6 = Some(l.ipv6_port)
                /\ IsNone(enr.ip4) /\ IsNone(enr.udp4)
           /\ l.mode = "DualStack" =>
                /\ enr.tcp4 = port /\ enr.tcp6 = port
                /\ enr.ip4 = Some(l.ipv4) /\ enr.udp4 = Some(l.ipv4_port)
                /\ enr.ip6 = Some(l.ipv6) /\ enr.udp6 = Some(l.ipv6_port)

\* C29 (as claimed): when the local record cannot be built or signed, start
\* returns InitFailure, and no Kademlia instance is created or started.
C29_BuildFailureReturnsInitFailure ==
    (steps = <<"BuildEnr">> /\ IsNone(local_enr)) =>
        /\ IsSome(start_ret) /\ Unwrap(start_ret).kind = "InitFailure"
        /\ discv5 = "none"

\* C30: the sequence number of the local record never goes down, and every
\* call of update_local_enr that changes the record raises it.
C30_LocalEnrSeqGrows ==
    [][(IsSome(local_enr) /\ IsSome(local_enr')) =>
          LET old == Unwrap(local_enr)
              new == Unwrap(local_enr')
          IN /\ new.seq >= old.seq
             /\ new # old => new.seq > old.seq]_vars

\* The record was changed twice: an entry was added, and the record has the
\* largest sequence number it can take.
C30_Witness ==
    /\ IsSome(local_enr)
    /\ Unwrap(local_enr).seq = MaxSeq
    /\ Unwrap(local_enr).kv["opstack"] = Some(2)

\* C35: when a transaction of batch k fails, nothing of batch k is applied
\* to the shared state, not even the diffs of its transactions that
\* succeeded, while the diff of the beacon-root call and the diffs of the
\* batches before k stay applied.
C35_FailedBatchNotCommitted ==
    Returned("EVM") =>
        /\ commits = batch_no - 1
        /\ state = AfterBatches(PreBatchState, block.body, block_queue,
                                batch_no - 1)
        /\ transition_state =
              Cardinality(ListedUpTo(block_queue, batch_no - 1))
                 + (IF beacon_diff THEN 1 ELSE 0)

\* The call failed in a first batch of two transactions of which the first
\* succeeded; the state is the state at entry with the beacon root written,
\* without the diff of the transaction that succeeded.
C35_Witness ==
    /\ Returned("EVM")
    /\ batch = <<0, 1>>
    /\ Transact(batch_start, block.body[1]).ok
    /\ ApplyDiff(batch_start, Transact(batch_start, block.body[1])) # state
    /\ beacon_diff
    /\ state # pre_state

\* A step in which a call of execute or execute_and_verify_receipt returns.
CallReturns == pc' = "idle" /\ (pc # "idle" \/ calls' # calls)

\* C36: a call of execute or execute_and_verify_receipt that returns Ok
\* appends one receipt list to the accumulated receipts, a call that returns
\* an error leaves them as they were; so, until they are taken, the
\* accumulated lists are as many as the calls that returned Ok.
C36_OneReceiptListPerOkCall ==
    /\ [][CallReturns =>
            IF Unwrap(ret').kind = "Ok"
            THEN /\ Len(receipts') = Len(receipts) + 1
                 /\ SubSeq(receipts', 1, Len(receipts)) = receipts
            ELSE receipts' = receipts]_vars
    /\ [](~taken => Len(receipts) = Len(ok_blocks))

\* Of two calls one returned Ok and the other an error: one list is
\* accumulated.
C36_Witness ==
    /\ pc = "idle"
    /\ calls = 2
    /\ Len(ok_blocks) = 1
    /\ err_seen
    /\ ~taken
    /\ Len(receipts) = 1

\* A step of take_output_state that changes something.
TakeStep ==
    \/ output' # output
    \/ ~taken /\ taken'
    \/ receipts # <<>> /\ receipts' = <<>>

\* C37: take_output_state returns the receipt lists accumulated since the
\* previous take, in the order they were saved, and first_block, 0 when it
\* was never set; it leaves the accumulated receipts empty and first_block
\* as it was, so a call that follows at once returns no receipts.
C37_TakeOutputState ==
    /\ [][TakeStep =>
            /\ IsSome(output')
            /\ Unwrap(output').receipts = receipts
            /\ Unwrap(output').first_block =
                  (IF first_block = NoneOpt THEN 0 ELSE first_block[1])
            /\ receipts' = <<>>
            /\ first_block' = first_block]_vars
    /\ [][(TakeStep /\ taken /\ receipts = <<>>) =>
            Unwrap(output').receipts = <<>>]_vars
    /\ [](pc = "idle" => ENABLED TakeOutputState)

\* Two blocks were executed and their two receipt lists taken; first_block
\* was returned and is still set.
C37_Witness ==
    /\ IsSome(output)
    /\ Len(Unwrap(output).receipts) = 2
    /\ receipts = <<>>
    /\ IsSome(first_block)
    /\ Unwrap(output).first_block = Unwrap(first_block)

\* C31: a call of update_local_enr with a key that is not utf-8, or one whose
\* enr_insert is rejected, returns () with the error logged, and the local
\* record is what it was before the call: the same sequence number and the
\* same entries.
C31_FailedUpdateLeavesRecord ==
    IsSome(updated) =>
        LET call == Unwrap(updated)
        IN /\ call.ret = "()"
           /\ call.logged # "" =>
                 /\ local_enr = call.before
                 /\ Unwrap(local_enr).seq = Unwrap(call.before).seq
                 /\ Unwrap(local_enr).kv = Unwrap(call.before).kv
           /\ call.logged = "" => Unwrap(local_enr).seq = Unwrap(call.before).seq + 1

\* Both failures happened on a record that had been updated before: the key
\* that is not utf-8, and the insert rejected at the last sequence number.
C31_Witness ==
    /\ IsSome(updated)
    /\ Unwrap(updated).logged = "key not utf-8"
    /\ Unwrap(local_enr).seq > 1
    /\ local_enr = Unwrap(updated).before

C31_WitnessRejected ==
    /\ IsSome(updated)
    /\ Unwrap(updated).logged = "failed to update local enr"
    /\ Unwrap(updated).key = "opstack"
    /\ Unwrap(local_enr).kv["opstack"] # Some(Unwrap(updated).value)

\* A step of add_node: a call has returned, or the kbuckets changed with no
\* event emitted.
AddNodeStep ==
    \/ add_node_ret' # add_node_ret
    \/ (kbuckets' # kbuckets /\ v5_emitted' = v5_emitted)

\* C34: when add_node returns Ok the record is in discv5's kbuckets in the
\* state the call leaves, with no discovery event emitted, polled or yielded
\* by the call; when add_enr rejects the record the call returns the error
\* AddNodeToDiscv5Failed and the kbuckets are what they were.  The last call's
\* record stays in the table until discv5 emits a further event.
C34_AddNodeOkIsInTable ==
    /\ [][AddNodeStep =>
            /\ IsSome(add_node_ret')
            /\ LET call == Unwrap(add_node_ret')
               IN /\ call.kind \in {"Ok", "AddNodeToDiscv5Failed"}
                  /\ call.kind = "Ok" =>
                        \E e \in kbuckets' : e.node_id = call.enr.node_id
                  /\ call.kind = "AddNodeToDiscv5Failed" => kbuckets' = kbuckets
            /\ UNCHANGED <<discv5_updates, discv4_updates, disc_update, yielded,
                           v5_emitted, v4_emitted, discv4_table>>]_vars
    /\ []((/\ IsSome(add_node_ret)
           /\ Unwrap(add_node_ret).kind = "Ok"
           /\ v5_emitted = <<>>) => Unwrap(add_node_ret).enr \in kbuckets)

\* add_node has returned Ok for one record and the error for the other, with
\* discv4 holding the first one's peer.
C34_Witness ==
    /\ IsSome(add_node_ret)
    /\ Unwrap(add_node_ret).kind = "AddNodeToDiscv5Failed"
    /\ Cardinality(kbuckets) = 1
    /\ Unwrap(add_node_ret).enr \notin kbuckets
    /\ v5_emitted = <<>>

C34_WitnessOk ==
    /\ IsSome(add_node_ret)
    /\ Unwrap(add_node_ret).kind = "Ok"
    /\ Unwrap(add_node_ret).enr \in kbuckets
    /\ yielded # <<>>

\* The comma-separated items of a string: the runs between two neighbouring
\* boundaries, the boundaries being the commas and the two ends.
C32_Items(str) ==
    LET bounds == {0, Len(str) + 1} \cup { i \in 1..Len(str) : str[i] = "," }
    IN { SubSeq(str, a + 1, b - 1) :
           <<a, b>> \in { ab \in bounds \X bounds :
                            /\ ab[1] < ab[2]
                            /\ \A c \in bounds : ~(ab[1] < c /\ c < ab[2]) } }

\* The boot node of an item taken alone: the signed record whose text the
\* item is once the whitespace around it is gone, respectively the
\* multiaddress (ip, UDP port, id) of the enode URL the item is; nothing for
\* any other item.
C32_BootNodeOf(called, item) ==
    LET text == SelectSeq(item, LAMBDA c : c # " ")
    IN IF called = "add_serialized_boot_nodes"
       THEN IF Len(text) = 1 /\ text[1] \in EnrTexts
            THEN {[kind |-> "Enr", node |-> text[1]]}
            ELSE {}
       ELSE IF item \in { <<t>> : t \in {"enode://i1@10.0.0.1:30303?discport=30301",
                                         "enode://i1@10.0.0.1:30304?discport=30301"} }
            THEN {[kind |-> "Enode",
                   node |-> <<"/ip4/", "10.0.0.1", "/udp/", 30301, "/p2p/", "i1">>]}
            ELSE IF item = <<"enode://i2@[::1]:30303?discport=30301">>
                 THEN {[kind |-> "Enode",
                        node |-> <<"/ip6/", "::1", "/udp/", 30301, "/p2p/", "i2">>]}
                 ELSE {}

\* C32: a call of add_serialized_boot_nodes or add_enode_boot_nodes leaves
\* in bootstrap_nodes what was there before and the boot nodes of those
\* comma-separated items that parse when taken alone, nothing else; the call
\* can be made on every string, whatever its items are.
C32_BootNodeParsersFilterPerItem ==
    /\ [][boot_called' # boot_called =>
            bootstrap_nodes' =
               bootstrap_nodes \cup
                  UNION { C32_BootNodeOf(boot_called', item) :
                             item \in C32_Items(boot_input) }]_vars
    /\ [](boot_called = "" =>
             ENABLED AddSerializedBootNodes /\ ENABLED AddEnodeBootNodes)

\* A record with whitespace after it was added although the item before it
\* does not parse.
C32_Witness ==
    /\ boot_called = "add_serialized_boot_nodes"
    /\ boot_input = <<"junk", ",", "enr:r1", " ">>
    /\ bootstrap_nodes = {BootNodeEnr("enr:r1")}

\* Two URLs of one node, with an empty item between them, gave one entry.
C32_WitnessEnode ==
    /\ boot_called = "add_enode_boot_nodes"
    /\ boot_input = <<"enode://i1@10.0.0.1:30303?discport=30301", ",", ",",
                      "enode://i1@10.0.0.1:30304?discport=30301">>
    /\ Cardinality(bootstrap_nodes) = 1

\* C33 (as claimed): when start_discv5_with_v4_downgrade returns Ok with both
\* protocols running, the socket bound for discv4 is none of the sockets
\* discv5 listens on; and a call whose discv4_addr is one of the sockets of
\* the listen configuration of discv5 does not return with both running.
C33_V4SocketDiffersFromV5 ==
    IsSome(downgrade_ret) =>
        LET outcome == Unwrap(downgrade_ret)
            both == outcome.kind = "Ok" /\ outcome.disc = "Some"
        IN /\ both => Unwrap(outcome.discv4_socket) \notin outcome.discv5_sockets
           /\ (/\ IsSome(downgrade_args.discv5_config)
               /\ downgrade_args.discv4_addr \in
                     ListenSockets(Unwrap(downgrade_args.discv5_config)))
                 => ~both

\* The first half alone: the sockets bound are different ones.
C33_BoundSocketsDiffer ==
    (/\ IsSome(downgrade_ret)
     /\ Unwrap(downgrade_ret).kind = "Ok"
     /\ Unwrap(downgrade_ret).disc = "Some")
        => Unwrap(Unwrap(downgrade_ret).discv4_socket)
              \notin Unwrap(downgrade_ret).discv5_sockets

\* A taken port: the call with discv4_addr on discv5's socket has failed.
C33_WitnessAddrInUse ==
    /\ IsSome(downgrade_ret)
    /\ downgrade_args.discv4_addr = [ip |-> "127.0.0.1", port |-> 30303]
    /\ IsSome(downgrade_args.discv5_config)
    /\ downgrade_args.discv4_addr \in
          ListenSockets(Unwrap(downgrade_args.discv5_config))
    /\ Unwrap(downgrade_ret).err = "Discovery(discv4_addr)"

\* C38 (as claimed): poll_next does not return Pending with events in
\* queued_events unless the task is going to poll again, so every event an
\* update has put into the queue is yielded in the end, the events in the
\* order of the queue, also when no further update arrives.
C38_QueuedEventsAreYielded ==
    /\ [](queued_events # <<>> => woken)
    /\ \A n \in 1..(MaxUpdates * MaxQueued) :
          (Len(stream_yielded) + Len(queued_events) >= n)
             ~> (Len(stream_yielded) >= n)

\* What holds: the events come out in the order they were queued, none
\* twice and none lost from the queue.
C38_YieldedInQueueOrder ==
    LET all == stream_yielded \o queued_events
    IN \A i, j \in 1..Len(all) :
          i < j => \/ all[i].update < all[j].update
                   \/ (all[i].update = all[j].update /\ all[i].event < all[j].event)

\* Events are queued, the streams hold nothing more, and the task sleeps.
C38_WitnessStuck ==
    /\ queued_events # <<>>
    /\ ~woken
    /\ ready_updates = <<>>
    /\ arrived = 1
====
